---- MODULE Spec2Model ----
(***************************************************************************)
(* A model of decode-config.py (Tasmota configuration backup/restore).     *)
(*                                                                         *)
(* The program is a single synchronous flow: a configuration image is      *)
(* loaded, de-obfuscated, decoded into a value tree by a versioned         *)
(* template, optionally re-encoded from a restore tree and written back.   *)
(* Byte buffers are sequences of integers 0..255; the element at source    *)
(* address a is buffer[a+1].  Python values carry their type in a tag      *)
(* (int, float, str, bytes, list, dict, none) so that comparisons between  *)
(* values of different Python types behave as they do in the interpreter.  *)
(* Text is ASCII, represented as sequences of character codes.             *)
(***************************************************************************)
EXTENDS Integers, Sequences, FiniteSets, TLC

VARIABLES
    ARGS,       \* parsed command line options
    EXIT_CODE,  \* the global EXIT_CODE
    halted,     \* TRUE once sys.exit() has been called
    CONFIG,     \* main's CONFIG dictionary (encode, decode, mapping, info)
    result,     \* the object returned by the last operation
    op,         \* name and arguments of the last operation
    written     \* images pushed to the device or written to the file

vars == <<ARGS, EXIT_CODE, halted, CONFIG, result, op, written>>

(***************************************************************************)
(* Python integer operators.  Python integers are unbounded two's          *)
(* complement numbers: & | ^ are defined on the infinite sign extension,   *)
(* >> is a floor division and << a multiplication.                         *)
(***************************************************************************)
Pow2(n) == IF n <= 0 THEN 1 ELSE 2 ^ n

\* a loop "for i in range(lo, hi + 1): acc = Op(acc, i)".  The range is run
\* through by halves, the first half before the second, and the value after
\* the first half is bound before the second half starts.
RECURSIVE FoldLeft(_, _, _, _)
FoldLeft(Op(_, _), acc, lo, hi) ==
    CASE lo > hi -> acc
      [] lo = hi -> Op(acc, lo)
      [] OTHER -> CHOOSE last \in {FoldLeft(Op, first, ((lo + hi) \div 2) + 1, hi) :
                                     first \in {FoldLeft(Op, acc, lo, (lo + hi) \div 2)}} : TRUE

\* an assignment "name = value" followed by the statements of Body: value is
\* computed once, before Body runs
Bind(value, Body(_)) == CHOOSE out \in {Body(name) : name \in {value}} : TRUE

\* the bit of weight 2^k, k in 0..3, of x op y for two hexadecimal digits
AndDigit(x, y) ==
    (x % 2) * (y % 2) + 2 * (((x \div 2) % 2) * ((y \div 2) % 2))
    + 4 * (((x \div 4) % 2) * ((y \div 4) % 2)) + 8 * ((x \div 8) * (y \div 8))

XorDigit(x, y) ==
    ((x + y) % 2) + 2 * (((x \div 2) + (y \div 2)) % 2)
    + 4 * (((x \div 4) + (y \div 4)) % 2) + 8 * (((x \div 8) + (y \div 8)) % 2)

\* a & b, a | b, a ^ b of Python integers, a hexadecimal digit at a time;
\* \div rounds down and % is never negative, so a negative integer is taken
\* in two's complement with its sign extended
RECURSIVE PyAnd(_, _)
PyAnd(a, b) ==
    CASE a = 0 \/ b = 0 -> 0
      [] a = -1 -> b
      [] b = -1 -> a
      [] OTHER -> 16 * PyAnd(a \div 16, b \div 16) + AndDigit(a % 16, b % 16)

RECURSIVE PyXor(_, _)
PyXor(a, b) ==
    CASE a = 0 -> b
      [] b = 0 -> a
      [] a = -1 -> -b - 1
      [] b = -1 -> -a - 1
      [] OTHER -> 16 * PyXor(a \div 16, b \div 16) + XorDigit(a % 16, b % 16)

OrDigit(x, y) == AndDigit(x, y) + XorDigit(x, y)

RECURSIVE PyOr(_, _)
PyOr(a, b) ==
    CASE a = 0 -> b
      [] b = 0 -> a
      [] a = -1 \/ b = -1 -> -1
      [] OTHER -> 16 * PyOr(a \div 16, b \div 16) + OrDigit(a % 16, b % 16)

PyShr(a, n) == IF n <= 0 THEN a ELSE a \div (2 ^ n)

PyShl(a, n) == a * Pow2(n)

(***************************************************************************)
(* Byte buffers.                                                           *)
(***************************************************************************)
At(b, addr) == b[addr + 1]

Slice(b, from, to) == SubSeq(b, from + 1, to)

Splice(b, addr, bytes) ==
    SubSeq(b, 1, addr) \o bytes \o SubSeq(b, addr + Len(bytes) + 1, Len(b))

(***************************************************************************)
(* Python values.  A value is a record [t, i, s]: t is the Python type,    *)
(* i the number of an int or float (floats of the model are integral), s   *)
(* the character codes of a str or bytes, the elements of a list, or the   *)
(* <<name, value>> items of a dict in insertion order.  An int of 2^31 or  *)
(* more (an unsigned 32-bit word with its top bit set) keeps its two       *)
(* 16-bit halves <<high, low>> in s.                                       *)
(***************************************************************************)
NoneV == [t |-> "none", i |-> 0, s |-> <<>>]
IntV(n) == [t |-> "int", i |-> n, s |-> <<>>]
FloatV(n) == [t |-> "float", i |-> n, s |-> <<>>]
StrV(codes) == [t |-> "str", i |-> 0, s |-> codes]
BytesV(codes) == [t |-> "bytes", i |-> 0, s |-> codes]
ListV(elems) == [t |-> "list", i |-> 0, s |-> elems]
DictV(items) == [t |-> "dict", i |-> 0, s |-> items]

U32(high, low) ==
    IF high < 32768 THEN IntV(high * 65536 + low)
    ELSE [t |-> "int", i |-> 0, s |-> <<high, low>>]

IsWide(value) == value.t = "int" /\ value.s # <<>>

\* Python == between two values: values of different types are unequal,
\* except that int and float compare by number.
PyEq(a, b) ==
    IF a.t \in {"int", "float"} /\ b.t \in {"int", "float"}
    THEN IsWide(a) = IsWide(b) /\ a.i = b.i /\ (IsWide(a) => a.s = b.s)
    ELSE a.t = b.t /\ a.i = b.i /\ a.s = b.s

HasKey(items, name) == \E k \in 1..Len(items) : items[k][1] = name

DictGet(items, name) ==
    IF HasKey(items, name)
    THEN items[CHOOSE k \in 1..Len(items) : items[k][1] = name][2]
    ELSE NoneV

(***************************************************************************)
(* hex(), "0x{:04x}".format(), "0x{:08x}".format() and int(text, 0).       *)
(***************************************************************************)
HexDigit(d) == IF d < 10 THEN 48 + d ELSE 87 + d

RECURSIVE HexDigits(_)
HexDigits(n) ==
    IF n < 16 THEN <<HexDigit(n)>>
    ELSE HexDigits(n \div 16) \o <<HexDigit(n % 16)>>

ZeroPad(digits, width) ==
    IF Len(digits) >= width THEN digits
    ELSE [k \in 1..(width - Len(digits)) |-> 48] \o digits

HexFormat(value, width) ==
    StrV(<<48, 120>> \o
         (IF IsWide(value)
          THEN HexDigits(value.s[1]) \o ZeroPad(HexDigits(value.s[2]), 4)
          ELSE ZeroPad(HexDigits(value.i), width)))

DigitValue(c) == IF c >= 97 THEN c - 87 ELSE c - 48

RECURSIVE HexNumber(_)
HexNumber(digits) ==
    IF digits = <<>> THEN 0
    ELSE 16 * HexNumber(SubSeq(digits, 1, Len(digits) - 1))
         + DigitValue(digits[Len(digits)])

\* int(text, 0) for the "0x..." texts the read converters produce
IntOfText(value) ==
    LET digits == SubSeq(value.s, 3, Len(value.s)) IN
    IF Len(digits) = 8 /\ DigitValue(digits[1]) >= 8
    THEN U32(HexNumber(SubSeq(digits, 1, 4)), HexNumber(SubSeq(digits, 5, 8)))
    ELSE IntV(HexNumber(digits))

(***************************************************************************)
(* struct: a format is [count, type]; count is the repeat prefix (1 when   *)
(* absent), type the byte order and conversion character.                  *)
(***************************************************************************)
Fmt(type) == [count |-> 1, type |-> type]
StrFmt(count) == [count |-> count, type |-> "s"]
DictFmt == [count |-> 0, type |-> "dict"]

TypeSize(type) ==
    CASE type = "<L" -> 4
      [] type = "<H" -> 2
      [] type = "<h" -> 2
      [] type = "B" -> 1
      [] type = "b" -> 1
      [] type = "s" -> 1

calcsize(format) == format.count * TypeSize(format.type)

IsTextFormat(format) == format.type = "s"

\* struct.unpack_from(format, dobj, addr)[0]
unpack_from(format, dobj, addr) ==
    LET byte(k) == At(dobj, addr + k)
        word == byte(0) + 256 * byte(1)
    IN CASE format.type = "s" -> BytesV(Slice(dobj, addr, addr + format.count))
         [] format.type = "B" -> IntV(byte(0))
         [] format.type = "b" -> IntV(IF byte(0) >= 128 THEN byte(0) - 256 ELSE byte(0))
         [] format.type = "<H" -> IntV(word)
         [] format.type = "<h" -> IntV(IF word >= 32768 THEN word - 65536 ELSE word)
         [] format.type = "<L" -> U32(byte(2) + 256 * byte(3), word)

LittleEndian(n, size) == [k \in 1..size |-> (n \div Pow2(8 * (k - 1))) % 256]

\* struct.pack(format, value): ok is FALSE where struct.error is raised
pack(format, value) ==
    LET n == value.i
        fits(lo, hi) == value.t = "int" /\ ~IsWide(value) /\ lo <= n /\ n <= hi
    IN CASE format.type = "s" ->
              [ok |-> value.t = "bytes",
               bytes |-> [k \in 1..format.count |->
                            IF k <= Len(value.s) THEN value.s[k] ELSE 0]]
         [] format.type = "B" ->
              [ok |-> fits(0, 255), bytes |-> LittleEndian(n % 256, 1)]
         [] format.type = "b" ->
              [ok |-> fits(-128, 127), bytes |-> LittleEndian(n % 256, 1)]
         [] format.type = "<H" ->
              [ok |-> fits(0, 65535), bytes |-> LittleEndian(n % 65536, 2)]
         [] format.type = "<h" ->
              [ok |-> fits(-32768, 32767), bytes |-> LittleEndian(n % 65536, 2)]
         [] format.type = "<L" ->
              IF IsWide(value)
              THEN [ok |-> TRUE,
                    bytes |-> LittleEndian(value.s[2], 2) \o LittleEndian(value.s[1], 2)]
              ELSE [ok |-> value.t = "int" /\ n >= 0,
                    bytes |-> LittleEndian(n % 65536, 2)
                              \o LittleEndian((n \div 65536) % 65536, 2)]

(***************************************************************************)
(* Setting definitions.  A field definition is the source's tuple          *)
(* (platform, format, addrdef, datadef, converter): addrdef is <<baseaddr>>,*)
(* <<baseaddr, bits, bitshift>> or <<baseaddr, strindex>>; arraydef is the *)
(* dimension list (<<>> for None); converter is <<>> for None, <<read>> for *)
(* a single converter and <<read, write>> for a pair.  Validators and      *)
(* converters are the source's expression texts.  The group and the        *)
(* Tasmota command of a definition are left out (no filter is set).        *)
(*                                                                         *)
(* The image layout is a reduced one: the templates keep a representative  *)
(* field of every kind with its source format, validator and converters,   *)
(* moved to low addresses, and the four image sizes 0x670, 0xa00, 0xe00    *)
(* and 0x1000 become 64, 70, 76 and 88 bytes.  Header fields keep their    *)
(* source addresses 0x000..0x017; the checksum slots stay the last eight   *)
(* bytes of the largest image.  Text fields are shortened accordingly;     *)
(* sta_pwd is kept where it is a text of the shared blob (from 8.0.0.1     *)
(* on).                                                                    *)
(***************************************************************************)
HIDDEN_PASSWORD == StrV(<<42, 42, 42, 42, 42, 42, 42, 42>>)

PLATFORMS == <<"ESP82xx", "ESP32">>

PlatformALL == 15

SET_MAX == 76

Def(format, addrdef, arraydef, validate, converter) ==
    [platform |-> PlatformALL, format |-> format, children |-> <<>>,
     addrdef |-> addrdef, arraydef |-> arraydef, validate |-> validate,
     converter |-> converter]

DictDef(children, addrdef) ==
    [platform |-> PlatformALL, format |-> DictFmt, children |-> children,
     addrdef |-> addrdef, arraydef |-> <<>>, validate |-> "None",
     converter |-> <<>>]

V_6_0_0 == 100663296
V_6_2_1_14 == 100794638
V_6_6_0_10 == 101056522
V_6_6_0_11 == 101056523
V_8_0_0_1 == 134217729
V_8_2_0_4 == 134348804

HexFormat4 == "\"0x{:04x}\".format($)"
HexFormat8 == "\"0x{:08x}\".format($)"

flag ==
    DictDef(<< <<"save_state",      Def(Fmt("<L"), <<16, 1, 0>>, <<>>, "None", <<>>)>>,
               <<"button_restrict", Def(Fmt("<L"), <<16, 1, 1>>, <<>>, "None", <<>>)>>,
               <<"mqtt_enabled",    Def(Fmt("<L"), <<16, 1, 3>>, <<>>, "None", <<>>)>> >>,
            <<16>>)

rule_enabled ==
    DictDef(<< <<"rule1", Def(Fmt("B"), <<70, 1, 0>>, <<>>, "None", <<>>)>>,
               <<"rule2", Def(Fmt("B"), <<70, 1, 1>>, <<>>, "None", <<>>)>>,
               <<"rule3", Def(Fmt("B"), <<70, 1, 2>>, <<>>, "None", <<>>)>> >>,
            <<70>>)

\* SETTING_5_10_0 and the updates of the later templates, by template version
Setting(version) ==
    << <<"cfg_holder", IF version < V_6_0_0
                       THEN Def(Fmt("<L"), <<0>>, <<>>, "None", <<HexFormat8>>)
                       ELSE Def(Fmt("<H"), <<0>>, <<>>, "None", <<>>)>>,
       <<"save_flag", Def(Fmt("<L"), <<4>>, <<>>, "None", <<"None", "False">>)>>,
       <<"version", Def(Fmt("<L"), <<8>>, <<>>, "None", <<"hex($)", "False">>)>>,
       <<"bootcount", Def(Fmt(IF version < V_6_0_0 THEN "<L" ELSE "<H"),
                          <<12>>, <<>>, "None", <<"None", "False">>)>>,
       <<"flag", flag>>,
       <<"save_data", Def(Fmt("<h"), <<20>>, <<>>, "0 <= $ <= 3600", <<>>)>>,
       <<"timezone", Def(Fmt("b"), <<22>>, <<>>, "-13 <= $ <= 13 or $==99", <<>>)>>,
       <<"light_speed", Def(Fmt("B"), <<23>>, <<>>, "1 <= $ <= 20", <<>>)>>,
       <<"sta_ssid", IF version < V_8_0_0_1
                     THEN Def(StrFmt(8), <<46>>, <<2>>, "None", <<>>)
                     ELSE Def(StrFmt(28), <<36, 4>>, <<2>>, "None", <<>>)>> >>
    \o (IF version >= V_8_0_0_1
        THEN << <<"sta_pwd", Def(StrFmt(28), <<36, 6>>, <<2>>, "None",
                                 <<"passwordread", "passwordwrite">>)>> >>
        ELSE <<>>)
    \o << <<"mqtt_pwd", IF version < V_8_0_0_1
                     THEN Def(StrFmt(10), <<36>>, <<>>, "None",
                              <<"passwordread", "passwordwrite">>)
                     ELSE Def(StrFmt(28), <<36, 15>>, <<>>, "None",
                              <<"passwordread", "passwordwrite">>)>>,
       <<"pwm_value", Def(Fmt("<H"), <<26>>, <<5>>, "0 <= $ <= 1023", <<>>)>>,
       <<"altitude", Def(Fmt("<h"), <<24>>, <<>>, "-30000 <= $ <= 30000", <<>>)>> >>
    \o (IF version >= V_6_0_0
        THEN << <<"cfg_size", Def(Fmt("<H"), <<2>>, <<>>, "None", <<"None", "False">>)>>,
                <<"cfg_crc", Def(Fmt("<H"), <<14>>, <<>>, "None", <<HexFormat4>>)>>,
                <<"rule_enabled", rule_enabled>> >>
        ELSE <<>>)
    \o (IF version >= V_6_2_1_14
        THEN << <<"weight_max", Def(Fmt("<H"), <<72>>, <<>>, "None",
                                    <<"float($) // 1000", "int($ * 1000)">>)>> >>
        ELSE <<>>)
    \o (IF version >= V_6_6_0_10
        THEN << <<"cfg_timestamp", Def(Fmt("<L"), <<80>>, <<>>, "None", <<>>)>>,
                <<"cfg_crc32", Def(Fmt("<L"), <<84>>, <<>>, "None", <<HexFormat8>>)>> >>
        ELSE <<>>)
    \o (IF version >= V_8_2_0_4
        THEN << <<"config_version", Def(Fmt("B"), <<76>>, <<>>, "None",
                                        <<"None", "False">>)>> >>
        ELSE <<>>)

\* the registry: (version, size) of every entry; the template of an entry
\* is Setting(version)
SETTINGS == <<
    <<134348804, 88>>,   \* line 1531: 0x8020004, 0x1000
    <<134348803, 88>>,   \* line 1532: 0x8020003, 0x1000
    <<134348800, 88>>,   \* line 1533: 0x8020000, 0x1000
    <<134283275, 88>>,   \* line 1534: 0x801000B, 0x1000
    <<134283274, 88>>,   \* line 1535: 0x801000A, 0x1000
    <<134283273, 88>>,   \* line 1536: 0x8010009, 0x1000
    <<134283270, 88>>,   \* line 1537: 0x8010006, 0x1000
    <<134283269, 88>>,   \* line 1538: 0x8010005, 0x1000
    <<134283268, 88>>,   \* line 1539: 0x8010004, 0x1000
    <<134283267, 88>>,   \* line 1540: 0x8010003, 0x1000
    <<134283266, 88>>,   \* line 1541: 0x8010002, 0x1000
    <<134283265, 88>>,   \* line 1542: 0x8010001, 0x1000
    <<134283264, 88>>,   \* line 1543: 0x8010000, 0x1000
    <<134217729, 88>>,   \* line 1544: 0x8000001, 0x1000
    <<117506566, 88>>,   \* line 1545: 0x7010206, 0x1000
    <<117506565, 88>>,   \* line 1546: 0x7010205, 0x1000
    <<117506563, 88>>,   \* line 1547: 0x7010203, 0x1000
    <<117506562, 88>>,   \* line 1548: 0x7010202, 0x1000
    <<117440518, 88>>,   \* line 1549: 0x7000006, 0x1000
    <<117440517, 88>>,   \* line 1550: 0x7000005, 0x1000
    <<117440516, 88>>,   \* line 1551: 0x7000004, 0x1000
    <<117440515, 88>>,   \* line 1552: 0x7000003, 0x1000
    <<117440514, 88>>,   \* line 1553: 0x7000002, 0x1000
    <<117440513, 88>>,   \* line 1554: 0x7000001, 0x1000
    <<101056533, 88>>,   \* line 1555: 0x6060015, 0x1000
    <<101056532, 88>>,   \* line 1556: 0x6060014, 0x1000
    <<101056530, 88>>,   \* line 1557: 0x6060012, 0x1000
    <<101056527, 88>>,   \* line 1558: 0x606000F, 0x1000
    <<101056526, 88>>,   \* line 1559: 0x606000E, 0x1000
    <<101056525, 88>>,   \* line 1560: 0x606000D, 0x1000
    <<101056524, 88>>,   \* line 1561: 0x606000C, 0x1000
    <<101056523, 88>>,   \* line 1562: 0x606000B, 0x1000
    <<101056522, 88>>,   \* line 1563: 0x606000A, 0x1000
    <<101056521, 88>>,   \* line 1564: 0x6060009, 0x1000
    <<101056520, 88>>,   \* line 1565: 0x6060008, 0x1000
    <<101056519, 88>>,   \* line 1566: 0x6060007, 0x1000
    <<101056518, 76>>,   \* line 1567: 0x6060006, 0xe00
    <<101056517, 76>>,   \* line 1568: 0x6060005, 0xe00
    <<101056515, 76>>,   \* line 1569: 0x6060003, 0xe00
    <<101056514, 76>>,   \* line 1570: 0x6060002, 0xe00
    <<101056513, 76>>,   \* line 1571: 0x6060001, 0xe00
    <<100990991, 76>>,   \* line 1572: 0x605000F, 0xe00
    <<100990988, 76>>,   \* line 1573: 0x605000C, 0xe00
    <<100990987, 76>>,   \* line 1574: 0x605000B, 0xe00
    <<100990986, 76>>,   \* line 1575: 0x605000A, 0xe00
    <<100990985, 76>>,   \* line 1576: 0x6050009, 0xe00
    <<100990983, 76>>,   \* line 1577: 0x6050007, 0xe00
    <<100990982, 76>>,   \* line 1578: 0x6050006, 0xe00
    <<100990979, 76>>,   \* line 1579: 0x6050003, 0xe00
    <<100925714, 76>>,   \* line 1580: 0x6040112, 0xe00
    <<100925713, 76>>,   \* line 1581: 0x6040111, 0xe00
    <<100925712, 76>>,   \* line 1582: 0x6040110, 0xe00
    <<100925709, 76>>,   \* line 1583: 0x604010D, 0xe00
    <<100925707, 76>>,   \* line 1584: 0x604010B, 0xe00
    <<100925704, 76>>,   \* line 1585: 0x6040108, 0xe00
    <<100925703, 76>>,   \* line 1586: 0x6040107, 0xe00
    <<100925700, 76>>,   \* line 1587: 0x6040104, 0xe00
    <<100925442, 76>>,   \* line 1588: 0x6040002, 0xe00
    <<100859920, 76>>,   \* line 1589: 0x6030010, 0xe00
    <<100859919, 76>>,   \* line 1590: 0x603000F, 0xe00
    <<100859918, 76>>,   \* line 1591: 0x603000E, 0xe00
    <<100859917, 76>>,   \* line 1592: 0x603000D, 0xe00
    <<100859915, 76>>,   \* line 1593: 0x603000B, 0xe00
    <<100859914, 76>>,   \* line 1594: 0x603000A, 0xe00
    <<100859912, 76>>,   \* line 1595: 0x6030008, 0xe00
    <<100859908, 76>>,   \* line 1596: 0x6030004, 0xe00
    <<100859906, 76>>,   \* line 1597: 0x6030002, 0xe00
    <<100859904, 76>>,   \* line 1598: 0x6030000, 0xe00
    <<100794644, 76>>,   \* line 1599: 0x6020114, 0xe00
    <<100794643, 76>>,   \* line 1600: 0x6020113, 0xe00
    <<100794638, 76>>,   \* line 1601: 0x602010E, 0xe00
    <<100794634, 76>>,   \* line 1602: 0x602010A, 0xe00
    <<100794630, 76>>,   \* line 1603: 0x6020106, 0xe00
    <<100794627, 76>>,   \* line 1604: 0x6020103, 0xe00
    <<100794626, 76>>,   \* line 1605: 0x6020102, 0xe00
    <<100794624, 76>>,   \* line 1606: 0x6020100, 0xe00
    <<100729088, 76>>,   \* line 1607: 0x6010100, 0xe00
    <<100663296, 76>>,   \* line 1608: 0x6000000, 0xe00
    <<84803584, 70>>,   \* line 1609: 0x50E0000, 0xa00
    <<84738304, 70>>,   \* line 1610: 0x50D0100, 0xa00
    <<84672512, 64>>,   \* line 1611: 0x50C0000, 0x670
    <<84606976, 64>>,   \* line 1612: 0x50B0000, 0x670
    <<84541440, 64>>   \* line 1613: 0x50A0000, 0x670
  >>

TemplateOf(cfg) == Setting(cfg[1])

(***************************************************************************)
(* exit_(): the status is always stored in EXIT_CODE; the run ends only    *)
(* when doexit is set.  A run state m carries the buffer being written,    *)
(* the exit code and whether sys.exit() was reached.                       *)
(***************************************************************************)
ExitOK == 0
RESTORE_SKIPPED == 1
DATA_SIZE_MISMATCH == 4
DATA_CRC_ERROR == 5
UNSUPPORTED_VERSION == 6
RESTORE_DATA_ERROR == 9
UPLOAD_CONFIG_ERROR == 11
INVALID_DATA == 12

\* the status kept only when the run ends
exit_onlyfatal(m, status, doexit) ==
    IF doexit THEN [m EXCEPT !.code = status, !.halt = TRUE] ELSE m

\* "EXIT_CODE = status" and "if doexit: sys.exit(EXIT_CODE)"
exit_(m, status, doexit) == [m EXCEPT !.code = status, !.halt = doexit]

(***************************************************************************)
(* Field definition access.                                                *)
(***************************************************************************)
get_fielddef(fielddef) ==
    [platform_ |-> fielddef.platform,
     format_ |-> fielddef.format,
     children |-> fielddef.children,
     baseaddr |-> fielddef.addrdef[1],
     bits |-> IF Len(fielddef.addrdef) = 3 THEN fielddef.addrdef[2] ELSE 0,
     bitshift |-> IF Len(fielddef.addrdef) = 3 THEN fielddef.addrdef[3] ELSE 0,
     strindex |-> IF Len(fielddef.addrdef) = 2 THEN fielddef.addrdef[2] ELSE -1,
     arraydef |-> fielddef.arraydef,
     validate |-> fielddef.validate,
     hasconverter |-> fielddef.converter # <<>>,
     readconverter |-> IF Len(fielddef.converter) >= 1 THEN fielddef.converter[1] ELSE "None",
     writeconverter |-> IF Len(fielddef.converter) = 2 THEN fielddef.converter[2] ELSE "None"]

get_subfielddef(fielddef) == [fielddef EXCEPT !.arraydef = Tail(fielddef.arraydef)]

RECURSIVE get_fieldlength(_)
RECURSIVE DictLength(_, _, _)

\* the loop of get_fieldlength over the names of a nested definition
DictLength(children, k, addr) ==
    IF k > Len(children) THEN 0
    ELSE LET baseaddr == children[k][2].addrdef[1]
             len == get_fieldlength(children[k][2])
         IN IF addr # baseaddr
            THEN len + DictLength(children, k + 1, baseaddr)
            ELSE DictLength(children, k + 1, addr)

\* arrays of the templates are one-dimensional
get_fieldlength(fielddef) ==
    IF fielddef.arraydef # <<>>
    THEN fielddef.arraydef[1] * get_fieldlength([fielddef EXCEPT !.arraydef = <<>>])
    ELSE IF fielddef.format.type = "dict"
    THEN DictLength(fielddef.children, 1, -1)
    ELSE calcsize(fielddef.format)

(***************************************************************************)
(* Converters and validators.                                              *)
(***************************************************************************)
passwordread(value) == IF ARGS.jsonhidepw THEN HIDDEN_PASSWORD ELSE value

passwordwrite(value) == IF PyEq(value, HIDDEN_PASSWORD) THEN NoneV ELSE value

bitsread(value, pos, bits) ==
    IF IsWide(value)
    THEN (IF bits > 0 /\ pos >= 0 /\ pos + bits <= 16
          THEN IntV(PyAnd(PyShr(value.s[2], pos), Pow2(bits) - 1))
          ELSE value)
    ELSE LET shifted == IF pos >= 0 THEN PyShr(value.i, pos) ELSE PyShl(value.i, -pos)
         IN IntV(IF bits > 0 THEN PyAnd(shifted, Pow2(bits) - 1) ELSE shifted)

\* eval(conv.replace('$', 'value')) or conv(value)
Convert(conv, value) ==
    CASE conv = "hex($)" -> HexFormat(value, 1)
      [] conv = HexFormat4 -> HexFormat(value, 4)
      [] conv = HexFormat8 -> HexFormat(value, 8)
      [] conv = "float($) // 1000" -> FloatV(value.i \div 1000)
      [] conv = "int($ * 1000)" -> IntV(value.i * 1000)
      [] conv = "passwordread" -> passwordread(value)
      [] conv = "passwordwrite" -> passwordwrite(value)
      [] OTHER -> value

readwrite_converter_rawfirst(value, fielddef, read, raw) ==
    LET d == get_fielddef(fielddef)
    IN IF ~raw /\ d.hasconverter
       THEN Convert(IF read THEN d.readconverter ELSE d.writeconverter, value)
       ELSE value

readwrite_converter(value, fielddef, read, raw) ==
    LET d == get_fielddef(fielddef)
        raw_ == IF read /\ d.readconverter = "passwordread" THEN FALSE
                ELSE IF ~read /\ d.writeconverter = "passwordwrite" THEN FALSE
                ELSE raw
    IN IF ~raw_ /\ d.hasconverter
       THEN Convert(IF read THEN d.readconverter ELSE d.writeconverter, value)
       ELSE value

validate_value_nozero(value, fielddef) ==
    LET validate == get_fielddef(fielddef).validate
        n == value.i
    IN CASE validate = "0 <= $ <= 3600" -> 0 <= n /\ n <= 3600
         [] validate = "-13 <= $ <= 13 or $==99" -> (-13 <= n /\ n <= 13) \/ n = 99
         [] validate = "0 <= $ <= 1023" -> 0 <= n /\ n <= 1023
         [] validate = "1 <= $ <= 20" -> 1 <= n /\ n <= 20
         [] validate = "-30000 <= $ <= 30000" -> -30000 <= n /\ n <= 30000
         [] OTHER -> TRUE

validate_value_accepting(value, fielddef) == TRUE

validate_value(value, fielddef) ==
    LET validate == get_fielddef(fielddef).validate
        n == value.i
    IN IF value.t = "int" /\ ~IsWide(value) /\ n = 0 THEN TRUE
       ELSE CASE validate = "0 <= $ <= 3600" -> 0 <= n /\ n <= 3600
              [] validate = "-13 <= $ <= 13 or $==99" -> (-13 <= n /\ n <= 13) \/ n = 99
              [] validate = "0 <= $ <= 1023" -> 0 <= n /\ n <= 1023
              [] validate = "1 <= $ <= 20" -> 1 <= n /\ n <= 20
              [] validate = "-30000 <= $ <= 30000" -> -30000 <= n /\ n <= 30000
              [] OTHER -> TRUE

(***************************************************************************)
(* Text of a string field.                                                 *)
(***************************************************************************)
\* str(bytes, STR_ENCODING, errors='ignore') on ASCII content
Decode(bytes) == SelectSeq(bytes, LAMBDA c : c < 128)

\* text.split('\x00', maxsplit); maxsplit -1 is "no limit"
Split(text, maxsplit) ==
    LET zeros == {j \in 1..Len(text) : text[j] = 0}
        count == IF maxsplit < 0 \/ Cardinality(zeros) < maxsplit
                 THEN Cardinality(zeros) ELSE maxsplit
        \* position of the k-th separator; 0 before the first part and
        \* Len(text) + 1 after the last one
        sep(k) == IF k = 0 THEN 0
                  ELSE IF k > count THEN Len(text) + 1
                  ELSE CHOOSE j \in zeros : Cardinality({h \in zeros : h < j}) = k - 1
    IN [k \in 1..(count + 1) |-> SubSeq(text, sep(k - 1) + 1, sep(k) - 1)]

\* text.rstrip('\x00')
RStrip(text) ==
    LET kept == {j \in 1..Len(text) : text[j] # 0}
    IN IF kept = {} THEN <<>>
       ELSE SubSeq(text, 1, CHOOSE j \in kept : \A h \in kept : h <= j)

Join_nosep(sarray) ==
    IF sarray = <<>> THEN <<>>
    ELSE FoldLeft(LAMBDA joined, k : joined \o sarray[k], sarray[1], 2, Len(sarray))

\* '\0'.join(sarray)
Join(sarray) ==
    IF sarray = <<>> THEN <<>>
    ELSE FoldLeft(LAMBDA joined, k : joined \o <<0>> \o sarray[k], sarray[1], 2, Len(sarray))

IsPrintable(c) == 32 <= c /\ c <= 126

(***************************************************************************)
(* Reading fields.                                                         *)
(***************************************************************************)
get_fieldvalue(fielddef, dobj, addr, idxoffset) ==
    LET d == get_fielddef(fielddef) IN
    IF ~IsTextFormat(d.format_)
    THEN bitsread(unpack_from(d.format_, dobj, addr), d.bitshift, d.bits)
    ELSE LET maxlength == get_fieldlength(fielddef)
             str_ == Decode(unpack_from(d.format_, dobj, addr).s)
             parts == Split(str_, SET_MAX)
             sarray == [k \in 1..Len(parts) |-> RStrip(parts[k])]
             chosen == IF d.strindex = -1 THEN sarray[1]
                       ELSE sarray[d.strindex + idxoffset + 1]
             printable == SelectSeq(chosen, IsPrintable)
         IN IF maxlength # 0
            THEN StrV(SubSeq(printable, 1,
                             IF Len(printable) < maxlength THEN Len(printable)
                             ELSE maxlength))
            ELSE StrV(<<>>)

RECURSIVE get_field(_, _, _, _, _)
get_field(dobj, platform_bits, fielddef, raw, addroffset) ==
    LET d == get_fielddef(fielddef) IN
    IF PyAnd(d.platform_, platform_bits) = 0 THEN NoneV
    ELSE IF d.arraydef # <<>>
    THEN LET subfielddef == get_subfielddef(fielddef)
             length == get_fieldlength(subfielddef)
         IN IF length = 0 THEN ListV(<<>>)
            ELSE ListV([k \in 1..d.arraydef[1] |->
                          get_field(dobj, platform_bits, subfielddef, raw,
                                    IF d.strindex # -1 THEN k - 1
                                    ELSE addroffset + (k - 1) * length)])
    ELSE IF d.format_.type = "dict"
    THEN LET values == [k \in 1..Len(d.children) |->
                          <<d.children[k][1],
                            get_field(dobj, platform_bits, d.children[k][2], raw, addroffset)>>]
         IN DictV(SelectSeq(values, LAMBDA item : item[2].t # "none"))
    ELSE IF get_fieldlength(fielddef) # 0
    THEN readwrite_converter(
             IF d.strindex # -1
             THEN get_fieldvalue(fielddef, dobj, d.baseaddr, addroffset)
             ELSE get_fieldvalue(fielddef, dobj, d.baseaddr + addroffset, 0),
             fielddef, TRUE, raw)
    ELSE NoneV

(***************************************************************************)
(* Writing fields.  The integers of the model stay below 2^31 in absolute  *)
(* value, except unsigned 32-bit words with the top bit set, which occur   *)
(* in the checksum slot only; words holding bit-fields are below 2^31.     *)
(***************************************************************************)
\* val = value & maxunsigned, made negative again when value was negative and
\* val is above maxsigned.  For a 32-bit format and |value| < 2^31 the two
\* steps give back value itself.
SingleValue_unsigned(value, bitsize) ==
    IF IsWide(value) \/ bitsize = 32 THEN value
    ELSE IntV(PyAnd(value.i, Pow2(bitsize) - 1))

SingleValue(value, bitsize) ==
    IF IsWide(value) \/ bitsize = 32 THEN value
    ELSE LET maxunsigned == Pow2(bitsize) - 1
             maxsigned == PyShr(Pow2(bitsize), 1) - 1
             val == PyAnd(value.i, maxunsigned)
         IN IntV(IF value.i < 0 /\ val > maxsigned
                 THEN ((maxunsigned + 1) - val) * (-1)
                 ELSE val)

set_fieldvalue(fielddef, m, addr, value) ==
    LET format_ == get_fielddef(fielddef).format_
        packed == IF IsTextFormat(format_) THEN pack(format_, value)
                  ELSE pack(format_, SingleValue(value, 8 * TypeSize(format_.type)))
    IN IF packed.ok
       THEN [m EXCEPT !.dobj = Splice(m.dobj, addr, packed.bytes)]
       ELSE exit_(m, RESTORE_DATA_ERROR, ~ARGS.ignorewarning)

\* max_ of get_fieldminmax for a text format
get_formatcount(format_) == format_.count

\* value &= (0xffffffff ^ mask) for a word and a mask below 2^31
ClearBits(word, mask) == PyAnd(word, PyXor(2147483647, mask))

\* the integer branch of set_field: the value to write and whether it is valid
IntegerValue(m, fielddef, restoremapping, addroffset) ==
    Bind(readwrite_converter(restoremapping, fielddef, FALSE, FALSE), LAMBDA converted :
    Bind(IF converted.t = "str" THEN IntOfText(converted)
         ELSE IF converted.t = "float" THEN IntV(converted.i)
         ELSE converted, LAMBDA value :
    LET d == get_fielddef(fielddef) IN
    IF d.bits # 0
    THEN LET bitvalue == value.i
             word == unpack_from(d.format_, m.dobj, d.baseaddr + addroffset).i
             mask == Pow2(d.bits) - 1
         IN IF ~validate_value(value, fielddef) THEN [valid |-> FALSE, value |-> value]
            ELSE IF bitvalue > mask THEN [valid |-> FALSE, value |-> IntV(word)]
            ELSE IF d.bitshift >= 0
            THEN [valid |-> TRUE,
                  value |-> IntV(PyOr(ClearBits(word, PyShl(mask, d.bitshift)),
                                      PyShl(bitvalue, d.bitshift)))]
            ELSE [valid |-> TRUE,
                  value |-> IntV(PyOr(ClearBits(word, PyShr(mask, -d.bitshift)),
                                      PyShr(bitvalue, -d.bitshift)))]
    ELSE [valid |-> validate_value(value, fielddef), value |-> value]))

\* the string branch of set_field
StringValue(m, fielddef, restoremapping, addroffset) ==
    Bind(readwrite_converter(BytesV(restoremapping.s), fielddef, FALSE, FALSE),
         LAMBDA converted :
    LET d == get_fielddef(fielddef)
        skip == converted.t = "none"
        valid == skip \/ (0 <= Len(converted.s)
                          /\ Len(converted.s) <= get_formatcount(d.format_) - 1)
    IN IF d.strindex = -1 \/ skip
       THEN [valid |-> valid, skip |-> skip, value |-> converted]
       ELSE LET str_ == Decode(unpack_from(d.format_, m.dobj, d.baseaddr).s)
                sarray == Split(str_, -1)
                text == Decode(converted.s)
                changed == [sarray EXCEPT ![d.strindex + addroffset + 1] = text]
            IN [valid |-> valid, skip |-> skip, value |-> BytesV(Join(changed))])

ArrayLimit_unchecked(m, arraydef, restoremapping) == m

\* "if len(restoremapping) > arraydef[0]: exit_(RESTORE_DATA_ERROR, ...)"
ArrayLimit(m, arraydef, restoremapping) ==
    IF Len(restoremapping.s) > arraydef[1]
    THEN exit_(m, RESTORE_DATA_ERROR, ~ARGS.ignorewarning)
    ELSE m

Readonly_never(writeconverter) == FALSE

\* "if writeconverter is False" of set_field
Readonly(writeconverter) == writeconverter = "False"

RECURSIVE set_field(_, _, _, _, _, _)

\* "for i in range(0, arraydef[0])" of set_field; the loop ends at the first
\* index the restore mapping has no element for
ArrayLoop(m0, platform_bits, fieldname, fielddef, restoremapping, addroffset) ==
    LET d == get_fielddef(fielddef)
        subfielddef == get_subfielddef(fielddef)
        length == get_fieldlength(subfielddef)
    IN FoldLeft(LAMBDA m, i :
                    IF m.halt \/ length = 0 \/ i >= Len(restoremapping.s) THEN m
                    ELSE set_field(m, platform_bits, fieldname, subfielddef,
                                   restoremapping.s[i + 1],
                                   IF d.strindex # -1 THEN i ELSE addroffset + i * length),
                m0, 0, d.arraydef[1] - 1)

\* "for name, rm_fielddef in format_.items()" of set_field
DictLoop(m0, platform_bits, children, restoremapping, addroffset) ==
    FoldLeft(LAMBDA m, k :
                 IF m.halt \/ DictGet(restoremapping.s, children[k][1]).t = "none" THEN m
                 ELSE set_field(m, platform_bits, children[k][1], children[k][2],
                                DictGet(restoremapping.s, children[k][1]), addroffset),
             m0, 1, Len(children))

set_field(m, platform_bits, fieldname, fielddef, restoremapping, addroffset) ==
    LET d == get_fielddef(fielddef) IN
    IF m.halt THEN m
    ELSE IF PyAnd(d.platform_, platform_bits) = 0 THEN m
    ELSE IF Readonly(d.writeconverter) THEN m
    ELSE IF d.arraydef # <<>>
    THEN ArrayLoop(ArrayLimit(m, d.arraydef, restoremapping),
                   platform_bits, fieldname, fielddef, restoremapping, addroffset)
    ELSE IF d.format_.type = "dict"
    THEN DictLoop(m, platform_bits, d.children, restoremapping, addroffset)
    ELSE Bind(IF IsTextFormat(d.format_)
              THEN StringValue(m, fielddef, restoremapping, addroffset)
              ELSE [skip |-> FALSE] @@ IntegerValue(m, fielddef, restoremapping, addroffset),
              LAMBDA r :
                  IF ~r.valid THEN exit_(m, RESTORE_DATA_ERROR, ~ARGS.ignorewarning)
                  ELSE IF r.skip THEN m
                  ELSE IF fieldname \in {"cfg_crc", "cfg_crc32", "cfg_timestamp", "_"} THEN m
                  ELSE set_fieldvalue(fielddef, m,
                                      IF d.strindex # -1 THEN d.baseaddr
                                      ELSE d.baseaddr + addroffset,
                                      r.value))

(***************************************************************************)
(* Template resolution.                                                    *)
(***************************************************************************)
\* sorted(SETTINGS, key=lambda s: s[0], reverse=True): a stable sort, the
\* entry at position k is the one with k-1 entries before it
Rank(settings, j) ==
    1 + Cardinality({i \in 1..Len(settings) :
                        \/ settings[i][1] > settings[j][1]
                        \/ (settings[i][1] = settings[j][1] /\ i < j)})

SortedAscending(settings) ==
    [k \in 1..Len(settings) |->
        settings[CHOOSE j \in 1..Len(settings) :
                    Rank(settings, j) = Len(settings) + 1 - k]]

SortedDescending(settings) ==
    [k \in 1..Len(settings) |->
        settings[CHOOSE j \in 1..Len(settings) : Rank(settings, j) = k]]

SortedSETTINGS == SortedDescending(SETTINGS)

FirstMatch_lowbyte(sorted, version) ==
    LET hits == {k \in 1..Len(sorted) : version % 256 >= sorted[k][1] % 256}
    IN IF hits = {} THEN 0 ELSE CHOOSE k \in hits : \A j \in hits : k <= j

\* the loop "for cfg in sorted(...): if version >= cfg[0]: ... break":
\* index of the entry the loop stops at, 0 when it runs to the end
FirstMatch(sorted, version) ==
    LET hits == {k \in 1..Len(sorted) : version >= sorted[k][1]}
    IN IF hits = {} THEN 0 ELSE CHOOSE k \in hits : \A j \in hits : k <= j

NoInfo ==
    [platform |-> 0, version |-> 0, template_version |-> 0, template_size |-> 0,
     template |-> <<>>, hastemplate |-> FALSE]

VersionDef == Def(Fmt("<L"), <<8>>, <<>>, "None", <<"hex($)", "False">>)

\* returns the info dictionary and the run state after the call
get_config_info(decode_cfg, m) ==
    Bind(get_field(decode_cfg, PlatformALL, VersionDef, TRUE, 0).i, LAMBDA version :
    Bind(FirstMatch(SortedSETTINGS, version), LAMBDA k :
    Bind(IF k = 0 THEN <<>> ELSE TemplateOf(SortedSETTINGS[k]), LAMBDA template :
    Bind(IF HasKey(template, "config_version")
         THEN get_field(decode_cfg, PlatformALL,
                        DictGet(template, "config_version"), TRUE, 0).i
         ELSE 0, LAMBDA stored :
    IF stored >= Len(PLATFORMS)
    THEN [info |-> NoInfo, m |-> exit_(m, INVALID_DATA, TRUE)]
    ELSE IF k = 0
    THEN [info |-> NoInfo, m |-> exit_(m, UNSUPPORTED_VERSION, TRUE)]
    ELSE [info |-> [platform |-> stored, version |-> version,
                    template_version |-> SortedSETTINGS[k][1],
                    template_size |-> SortedSETTINGS[k][2],
                    template |-> template, hastemplate |-> TRUE],
          m |-> m]))))

(***************************************************************************)
(* Checksums.  The 32-bit register of get_settingcrc32 is kept as its two  *)
(* 16-bit halves <<high, low>>.                                            *)
(***************************************************************************)
WeightedSum(dobj, size) ==
    FoldLeft(LAMBDA crc, i : IF i \in {14, 15} THEN crc ELSE crc + At(dobj, i) * (i + 1),
             0, 0, size - 1)

\* crc += byte_ * (i+1) for i in range(0, size) without 14 and 15; crc & 0xffff
Checksum16(dobj, size) == PyAnd(WeightedSum(dobj, size), 65535)

get_settingcrc(dobj) ==
    LET config_info == get_config_info(dobj, [code |-> 0, halt |-> FALSE]).info
    IN IntV(Checksum16(dobj, config_info.template_size))

\* crc = (crc >> 1) ^ (-int(crc & 1) & 0xEDB88320)
CrcShift(crc) ==
    LET high == crc[1] \div 2
        low == (crc[2] \div 2) + (crc[1] % 2) * 32768
    IN IF crc[2] % 2 = 1 THEN <<PyXor(high, 60856), PyXor(low, 33568)>>
       ELSE <<high, low>>

\* for _ in range(0, 8): ...
CrcRounds(crc0) == FoldLeft(LAMBDA crc, round : CrcShift(crc), crc0, 1, 8)

\* for i in range(0, n): byte_ = dobj[i]; crc ^= byte_; ...
CrcBytes(dobj, n) ==
    FoldLeft(LAMBDA crc, i : CrcRounds(<<crc[1], PyXor(crc[2], At(dobj, i))>>),
             <<0, 0>>, 0, n - 1)

\* ~crc & 0xffffffff over range(0, len(dobj)-4)
get_settingcrc32(dobj) ==
    LET crc == CrcBytes(dobj, Len(dobj) - 4)
    IN U32(65535 - crc[1], 65535 - crc[2])

(***************************************************************************)
(* Decoding an image into a mapping and encoding a mapping into an image.  *)
(***************************************************************************)
RootDef(template) == DictDef(template, <<0>>)

Header(decode_cfg, config_info, cfg_crc, cfg_size, cfg_crc32) ==
    LET template == config_info.template
        sized == IF HasKey(template, "cfg_crc") /\ HasKey(template, "cfg_size")
                 THEN << <<"size", cfg_size>> >> ELSE <<>>
    IN DictV(<< <<"template",
                  DictV(<< <<"version", HexFormat(IntV(config_info.template_version), 1)>>,
                           <<"crc", HexFormat(cfg_crc, 1)>> >>
                        \o sized
                        \o (IF HasKey(template, "cfg_crc32")
                            THEN << <<"crc32", HexFormat(cfg_crc32, 1)>> >> ELSE <<>>))>>,
                <<"data",
                  DictV(<< <<"crc", HexFormat(get_settingcrc(decode_cfg), 1)>>,
                           <<"size", IntV(Len(decode_cfg))>> >>
                        \o (IF HasKey(template, "cfg_crc32")
                            THEN << <<"crc32", HexFormat(get_settingcrc32(decode_cfg), 1)>> >>
                            ELSE <<>>)
                        \o (IF config_info.version # 0
                            THEN << <<"version", HexFormat(IntV(config_info.version), 1)>> >>
                            ELSE <<>>))>> >>)

bin2mapping(decode_cfg, m0) ==
    Bind(get_config_info(decode_cfg, m0), LAMBDA r :
    IF r.m.halt THEN [mapping |-> NoneV, m |-> r.m] ELSE
    Bind(get_settingcrc(decode_cfg), LAMBDA crc :
    Bind(get_settingcrc32(decode_cfg), LAMBDA crc32 :
    LET config_info == r.info
        template == config_info.template
        raw(name) == get_field(decode_cfg, PlatformALL, DictGet(template, name), TRUE, 0)
        cfg_size == IF HasKey(template, "cfg_size") THEN raw("cfg_size") ELSE NoneV
        m1 == IF cfg_size.t # "none" /\ cfg_size.i # config_info.template_size
              THEN exit_(r.m, DATA_SIZE_MISMATCH, TRUE)
              ELSE r.m
        cfg_crc == IF HasKey(template, "cfg_crc") THEN raw("cfg_crc") ELSE crc
        cfg_crc32 == IF HasKey(template, "cfg_crc32") THEN raw("cfg_crc32") ELSE crc32
        crc_ok == IF config_info.version < V_6_6_0_11
                  THEN PyEq(cfg_crc, crc)
                  ELSE PyEq(cfg_crc32, crc32)
        m2 == IF crc_ok THEN m1 ELSE exit_(m1, DATA_CRC_ERROR, ~ARGS.ignorewarning)
        valuemapping == get_field(decode_cfg, PyShl(1, config_info.platform),
                                  RootDef(template), FALSE, 0)
        kept == SelectSeq(valuemapping.s,
                          LAMBDA item : ~(item[2].t \in {"dict", "list"} /\ item[2].s = <<>>))
    IN IF m1.halt THEN [mapping |-> NoneV, m |-> m1]
       ELSE IF m2.halt THEN [mapping |-> NoneV, m |-> m2]
       ELSE [mapping |-> DictV(kept \o << <<"header",
                                 Header(decode_cfg, config_info, cfg_crc, cfg_size, cfg_crc32)>> >>),
             m |-> m2])))

\* the loop with a warning for every key the template does not hold
RestoreLoop_headerwarned(m0, config, items) ==
    LET template == config.info.template
    IN FoldLeft(LAMBDA m, k :
                    IF m.halt THEN m
                    ELSE IF HasKey(template, items[k][1])
                    THEN set_field(m, PyShl(1, config.info.platform), items[k][1],
                                   DictGet(template, items[k][1]), items[k][2], 0)
                    ELSE exit_(m, RESTORE_DATA_ERROR, ~ARGS.ignorewarning),
                m0, 1, Len(items))

\* "for name, data in jsonconfig.items()" of mapping2bin
RestoreLoop(m0, config, items) ==
    LET template == config.info.template
    IN FoldLeft(LAMBDA m, k :
                    IF m.halt THEN m
                    ELSE IF HasKey(template, items[k][1])
                    THEN set_field(m, PyShl(1, config.info.platform), items[k][1],
                                   DictGet(template, items[k][1]), items[k][2], 0)
                    ELSE IF items[k][1] # "header"
                    THEN exit_(m, RESTORE_DATA_ERROR, ~ARGS.ignorewarning)
                    ELSE m,
                m0, 1, Len(items))

\* the 16-bit checksum patched first
PatchChecksum_crcfirst(m, template) ==
    IF HasKey(template, "cfg_crc")
    THEN LET cfg_crc_setting == DictGet(template, "cfg_crc")
         IN [m EXCEPT !.dobj = Splice(m.dobj, cfg_crc_setting.addrdef[1],
                                      pack(cfg_crc_setting.format, get_settingcrc(m.dobj)).bytes)]
    ELSE m

\* "CRC32 calc takes precedence over CRC"
PatchChecksum(m, template) ==
    IF HasKey(template, "cfg_crc32")
    THEN LET cfg_crc32_setting == DictGet(template, "cfg_crc32")
         IN [m EXCEPT !.dobj = Splice(m.dobj, cfg_crc32_setting.addrdef[1],
                                      pack(cfg_crc32_setting.format,
                                           get_settingcrc32(m.dobj)).bytes)]
    ELSE IF HasKey(template, "cfg_crc")
    THEN LET cfg_crc_setting == DictGet(template, "cfg_crc")
         IN [m EXCEPT !.dobj = Splice(m.dobj, cfg_crc_setting.addrdef[1],
                                      pack(cfg_crc_setting.format, get_settingcrc(m.dobj)).bytes)]
    ELSE m

\* the run state after the call; its dobj is the returned buffer
mapping2bin(config, jsonconfig, m0) ==
    IF ~config.info.hastemplate
    THEN [exit_(m0, UNSUPPORTED_VERSION, ~ARGS.ignorewarning) EXCEPT !.dobj = <<>>]
    ELSE Bind(RestoreLoop([m0 EXCEPT !.dobj = config.decode], config, jsonconfig.s),
              LAMBDA m : IF m.halt THEN m ELSE PatchChecksum(m, config.info.template))

(***************************************************************************)
(* Obfuscation of the image.                                               *)
(***************************************************************************)
CONFIG_FILE_XOR == 90

decrypt_encrypt_nokeystep(obj) ==
    [i \in 1..Len(obj) |->
        IF i - 1 < 2 THEN obj[i]
        ELSE PyAnd(PyXor(obj[i], CONFIG_FILE_XOR), 255)]

decrypt_encrypt(obj) ==
    [i \in 1..Len(obj) |->
        IF i - 1 < 2 THEN obj[i]
        ELSE PyAnd(PyXor(obj[i], CONFIG_FILE_XOR + (i - 1)), 255)]

(***************************************************************************)
(* Options and exit handling.                                              *)
(***************************************************************************)
DefaultArgs ==
    [ignorewarning |-> FALSE, jsonhidepw |-> FALSE, forcerestore |-> FALSE,
     dryrun |-> FALSE, target |-> "file"]

(***************************************************************************)
(* The start of a run: the image is read from the file or the device,      *)
(* de-obfuscated and decoded, and the CONFIG dictionary is built.          *)
(***************************************************************************)
NoConfig == [encode |-> <<>>, decode |-> <<>>, mapping |-> NoneV, info |-> NoInfo]

NoOp == [name |-> "start", n |-> 0, field |-> "", data |-> NoneV, before |-> <<>>,
         value |-> NoneV, code |-> 0]

Start ==
    /\ EXIT_CODE = 0
    /\ halted = FALSE
    /\ CONFIG = NoConfig
    /\ result = <<>>
    /\ op = NoOp
    /\ written = <<>>

SUPPORTED_VERSION == SortedSETTINGS[1][1]

LoadConfig(encode_config) ==
    /\ op.name = "start"
    /\ \E decode_config \in {decrypt_encrypt(encode_config)} :
       \E b \in {bin2mapping(decode_config, [code |-> EXIT_CODE, halt |-> FALSE])} :
       \E info \in {IF b.m.halt THEN NoInfo
                    ELSE get_config_info(decode_config, b.m).info} :
       \E m \in {IF ~b.m.halt /\ info.version > SUPPORTED_VERSION /\ ~ARGS.ignorewarning
                 THEN exit_(b.m, UNSUPPORTED_VERSION, TRUE)
                 ELSE b.m} :
          /\ CONFIG' = [encode |-> encode_config, decode |-> decode_config,
                        mapping |-> b.mapping, info |-> info]
          /\ result' = decode_config
          /\ EXIT_CODE' = m.code
          /\ halted' = m.halt
    /\ op' = [op EXCEPT !.name = "load"]
    /\ UNCHANGED <<ARGS, written>>

(***************************************************************************)
(* Obfuscation passes over arbitrary byte sequences.                       *)
(***************************************************************************)
XorMaxLen == 170
MaxPasses == 2

Pattern(len, seed, stride) == [i \in 1..len |-> (seed + (i - 1) * stride) % 256]

XorInputs ==
    { Pattern(len, seed, stride) :
        len \in {2, 3, 4, XorMaxLen}, seed \in {0, 90, 165, 255}, stride \in {0, 1, 37} }

InitXor ==
    /\ ARGS = DefaultArgs
    /\ EXIT_CODE = 0
    /\ halted = FALSE
    /\ \E b \in XorInputs : CONFIG = [encode |-> b, decode |-> <<>>] /\ result = b
    /\ op = [name |-> "load", n |-> 0, arg |-> <<>>]
    /\ written = <<>>

DecryptEncrypt ==
    /\ ~halted
    /\ op.n < MaxPasses
    /\ result' = decrypt_encrypt(result)
    /\ op' = [name |-> "decrypt_encrypt", n |-> op.n + 1, arg |-> result]
    /\ UNCHANGED <<ARGS, EXIT_CODE, halted, CONFIG, written>>

NextXor == DecryptEncrypt

SpecXor == InitXor /\ [][NextXor]_vars

\* C5: an obfuscation pass keeps the length and the first two bytes, turns
\* every byte at index i >= 2 into the input byte XORed with (0x5A + i) mod 256,
\* and two passes give back the original byte sequence.
XorSelfInverse ==
    op.name = "decrypt_encrypt" =>
        /\ Len(result) = Len(op.arg)
        /\ \A i \in 0..(Len(op.arg) - 1) :
              At(result, i) = IF i < 2 THEN At(op.arg, i)
                              ELSE PyXor(At(op.arg, i), (90 + i) % 256)
        /\ (op.n = 2 => result = CONFIG.encode)

XorWitness ==
    /\ op.name = "decrypt_encrypt"
    /\ op.n = 2
    /\ Len(result) > 167
    /\ result = CONFIG.encode
    /\ op.arg # result
    /\ At(result, 167) = PyXor(At(op.arg, 167), 1)
    /\ At(result, 166) = At(op.arg, 166)

(***************************************************************************)
(* Template resolution of two images, each in a run of its own.            *)
(***************************************************************************)
MaxSize == SETTINGS[1][2]

ImageOf(version, config_version) ==
    Splice(Splice([k \in 1..MaxSize |-> 0], 8,
                  LittleEndian(version % 65536, 2)
                  \o LittleEndian(version \div 65536, 2)),
           76, <<config_version>>)

RegistryVersions == {SETTINGS[k][1] : k \in 1..Len(SETTINGS)}

OldestVersion == CHOOSE v \in RegistryVersions : \A w \in RegistryVersions : v <= w

ProbeVersions ==
    {0, 1, OldestVersion - 1, OldestVersion, OldestVersion + 1, 84672512,
     V_6_0_0 - 1, V_6_0_0, V_6_6_0_10, V_6_6_0_11 + 1, V_8_0_0_1 - 1,
     V_8_2_0_4, V_8_2_0_4 + 1, 150994944}

ResolveImages ==
    {ImageOf(v, 0) : v \in RegistryVersions \cup ProbeVersions}
    \cup {ImageOf(v, c) : v \in {V_8_2_0_4 - 1, V_8_2_0_4, V_8_2_0_4 + 1}, c \in {1, 2, 255}}

ProbeImages ==
    {ImageOf(v, 0) : v \in ProbeVersions} \cup {ImageOf(V_8_2_0_4, 2)}

NoRun == [info |-> NoInfo, code |-> 0, halt |-> TRUE, arg |-> <<>>]

InitResolve ==
    /\ ARGS = DefaultArgs
    /\ EXIT_CODE = 0
    /\ halted = FALSE
    /\ \E first \in ResolveImages, second \in ProbeImages :
          CONFIG = [encode |-> <<>>, decode |-> first, next |-> second]
    /\ result = NoInfo
    /\ op = [name |-> "load", n |-> 1, arg |-> <<>>, prev |-> NoRun]
    /\ written = <<>>

GetConfigInfo ==
    /\ ~halted
    /\ op.name = "load"
    /\ \E r \in {get_config_info(CONFIG.decode, [code |-> EXIT_CODE, halt |-> FALSE])} :
          /\ result' = r.info
          /\ EXIT_CODE' = r.m.code
          /\ halted' = r.m.halt
    /\ op' = [op EXCEPT !.name = "get_config_info", !.arg = CONFIG.decode]
    /\ UNCHANGED <<ARGS, CONFIG, written>>

\* the next image is processed by a new run of the program
NextRun ==
    /\ op.name = "get_config_info"
    /\ op.n = 1
    /\ CONFIG' = [CONFIG EXCEPT !.decode = CONFIG.next]
    /\ EXIT_CODE' = 0
    /\ halted' = FALSE
    /\ op' = [name |-> "load", n |-> 2, arg |-> <<>>,
              prev |-> [info |-> result, code |-> EXIT_CODE, halt |-> halted,
                        arg |-> op.arg]]
    /\ UNCHANGED <<ARGS, result, written>>

NextResolve == GetConfigInfo \/ NextRun

SpecResolve == InitResolve /\ [][NextResolve]_vars

StoredVersion(image) ==
    At(image, 8) + 256 * At(image, 9) + 65536 * At(image, 10) + 16777216 * At(image, 11)

Qualifying(version) == {k \in 1..Len(SETTINGS) : SETTINGS[k][1] <= version}

\* C6: get_config_info returns the registry entry with the greatest version
\* not above the decoded version V; when no entry qualifies the run ends with
\* UNSUPPORTED_VERSION (6) and no template is returned.  The only other way
\* the call ends is INVALID_DATA (12) for a stored platform index out of range.
GreatestEntryResolved ==
    op.name = "get_config_info" =>
        LET V == StoredVersion(op.arg)
            Q == Qualifying(V)
        IN /\ (Q = {} => halted /\ EXIT_CODE = 6 /\ ~result.hastemplate)
           /\ (halted => EXIT_CODE \in {6, 12} /\ ~result.hastemplate)
           /\ (halted /\ EXIT_CODE = 6 => Q = {})
           /\ (halted /\ EXIT_CODE = 12 => V >= V_8_2_0_4 /\ At(op.arg, 76) >= 2)
           /\ (~halted =>
                 /\ result.version = V
                 /\ \E k \in Q :
                       /\ result.template_version = SETTINGS[k][1]
                       /\ result.template_size = SETTINGS[k][2]
                       /\ result.template = Setting(SETTINGS[k][1])
                       /\ \A j \in Q : SETTINGS[j][1] <= SETTINGS[k][1])

GreatestEntryWitness ==
    /\ op.name = "get_config_info"
    /\ ~halted
    /\ StoredVersion(op.arg) > result.template_version
    /\ StoredVersion(op.arg) = V_6_0_0 - 1
    /\ result.template_size = 70
    /\ Cardinality(Qualifying(result.version)) > 1

\* C7: when two images with versions v1 < v2, both at or above the oldest
\* registry entry, are resolved, the template version found for v1 is not
\* above the one found for v2.
ResolutionMonotone ==
    (op.name = "get_config_info" /\ op.n = 2 /\ ~halted /\ ~op.prev.halt) =>
        LET v1 == StoredVersion(op.prev.arg)
            v2 == StoredVersion(op.arg)
        IN /\ v1 >= OldestVersion
           /\ v2 >= OldestVersion
           /\ (v1 < v2 => op.prev.info.template_version <= result.template_version)
           /\ (v2 < v1 => result.template_version <= op.prev.info.template_version)

MonotoneWitness ==
    /\ op.name = "get_config_info"
    /\ op.n = 2
    /\ ~halted
    /\ ~op.prev.halt
    /\ StoredVersion(op.prev.arg) < StoredVersion(op.arg)
    /\ StoredVersion(op.prev.arg) # op.prev.info.template_version
    /\ op.prev.info.template_version < result.template_version

(***************************************************************************)
(* Writing single fields of a loaded image through set_field, as           *)
(* mapping2bin does for every name of the restore tree, and reading them   *)
(* back through get_field.                                                 *)
(***************************************************************************)
MaxWrites == 2

Secret == <<115, 101, 99, 114, 101, 116>>
NewPw == <<110, 101, 119, 112, 119>>
TenChars == <<97, 98, 99, 100, 101, 102, 103, 104, 105, 106>>

Zeros(n) == [k \in 1..n |-> 0]

SizeOf(version) == SortedSETTINGS[FirstMatch(SortedSETTINGS, version)][2]

\* the checksum the device stores: the CRC-32 in the last four bytes from
\* 6.6.0.11 on, the 16-bit checksum at 0x00E from 6.0.0 on
Stamp(image, version) ==
    IF version >= V_6_6_0_11
    THEN Splice(image, Len(image) - 4, pack(Fmt("<L"), get_settingcrc32(image)).bytes)
    ELSE IF version >= V_6_0_0
    THEN Splice(image, 14, LittleEndian(Checksum16(image, SizeOf(version)), 2))
    ELSE image

\* an image of a registry version: version and declared size in the header,
\* the flag byte, a stored MQTT password, and the rule byte and the weight
\* where the size has room for them
RawImage(version, rules, flags, password, weight) ==
    LET size == SizeOf(version)
        header == Splice(Splice(Zeros(size), 8,
                                LittleEndian(version % 65536, 2)
                                \o LittleEndian(version \div 65536, 2)),
                         2, IF version >= V_6_0_0 THEN LittleEndian(size, 2) ELSE <<0, 0>>)
        fields == Splice(header, 16, <<flags>>)
        sized == IF size > 73
                 THEN Splice(Splice(fields, 70, <<rules>>), 72, LittleEndian(weight, 2))
                 ELSE fields
    IN IF version < V_8_0_0_1
       THEN Splice(sized, 36, password)
       ELSE Splice(sized, 36 + 15, password)

FieldImage(version, rules, flags, password) ==
    Stamp(RawImage(version, rules, flags, password, 0), version)

Ints(seq) == ListV([k \in 1..Len(seq) |-> IntV(seq[k])])
One(name, value) == DictV(<< <<name, value>> >>)

FieldWrites ==
    {<<"rule_enabled", One("rule1", IntV(x))>> : x \in {0, 1, 2, -1, -254, -255}}
    \cup {<<"rule_enabled", One("rule2", IntV(x))>> : x \in {0, 1}}
    \cup {<<"rule_enabled", DictV(<< <<"rule1", IntV(1)>>, <<"rule3", IntV(1)>> >>)>>}
    \cup {<<"flag", One(name, IntV(x))>> :
             name \in {"save_state", "button_restrict", "mqtt_enabled"}, x \in {0, 1}}
    \cup {<<"flag", One("save_state", IntV(-1))>>, <<"flag", One("button_restrict", IntV(2))>>}
    \cup {<<"pwm_value", Ints(seq)>> :
             seq \in {<<7, 8, 9>>, <<1, 2, 3, 4, 5>>, <<1, 2, 3, 4, 5, 6>>,
                      <<1, 2000, 3, 4, 5, 6>>, <<9, 8, 7, 6, 5, 4, 3>>}}
    \cup {<<"altitude", IntV(x)>> : x \in {40000, -30000, 30000, 0, -30001, 1234}}
    \cup {<<"mqtt_pwd", StrV(text)>> : text \in {HIDDEN_PASSWORD.s, NewPw, TenChars, <<>>}}
    \cup {<<"timezone", IntV(x)>> : x \in {99, 14, -13}}
    \cup {<<"weight_max", FloatV(1)>>, <<"weight_max", IntV(70)>>}
    \cup {<<"version", IntV(5)>>}

FieldImages ==
    {FieldImage(v, r, f, Secret) :
        v \in {V_6_2_1_14, V_8_2_0_4}, r \in {0, 5, 128, 255}, f \in {0, 10}}

InitField ==
    /\ \E w \in BOOLEAN : ARGS = [DefaultArgs EXCEPT !.ignorewarning = w]
    /\ Start

LoadFieldImage == \E image \in FieldImages : LoadConfig(decrypt_encrypt(image))

SetField ==
    /\ ~halted
    /\ op.name \in {"load", "set_field"}
    /\ op.n < MaxWrites
    /\ \E write \in FieldWrites :
          /\ op.n > 0 => write[1] = op.field
          /\ HasKey(CONFIG.info.template, write[1])
          /\ \E m \in {set_field([dobj |-> result, code |-> EXIT_CODE, halt |-> FALSE],
                                  PyShl(1, CONFIG.info.platform), write[1],
                                  DictGet(CONFIG.info.template, write[1]), write[2], 0)} :
                /\ result' = m.dobj
                /\ EXIT_CODE' = m.code
                /\ halted' = m.halt
          /\ op' = [name |-> "set_field", n |-> op.n + 1, field |-> write[1],
                    data |-> write[2], before |-> result, value |-> NoneV,
                    code |-> EXIT_CODE]
    /\ UNCHANGED <<ARGS, CONFIG, written>>

GetField ==
    /\ ~halted
    /\ op.name = "set_field"
    /\ op' = [op EXCEPT !.name = "get_field",
                        !.value = get_field(result, PyShl(1, CONFIG.info.platform),
                                            DictGet(CONFIG.info.template, op.field),
                                            FALSE, 0)]
    /\ UNCHANGED <<ARGS, EXIT_CODE, halted, CONFIG, result, written>>

NextField == LoadFieldImage \/ SetField \/ GetField

SpecField == InitField /\ [][NextField]_vars

\* C3: when the value given for a password field is the mask '********',
\* set_field skips the field and the buffer, the stored password included,
\* is what it was before the call.
PasswordMaskSkipped ==
    (op.name = "set_field" /\ op.field = "mqtt_pwd" /\ PyEq(op.data, HIDDEN_PASSWORD))
        => result = op.before

Bit(n, p) == (n \div Pow2(p)) % 2

\* the bits of a word the model holds: 31 of a 32-bit word, whose top bit is 0
WordBits(format_) == IF TypeSize(format_.type) = 4 THEN 31 ELSE 8 * TypeSize(format_.type)

BitFields == {"flag", "rule_enabled"}

\* the bit positions of the sub-fields a restore mapping names
WrittenBits(children, data) ==
    {p \in 0..31 :
        \E k \in 1..Len(children) :
            /\ HasKey(data.s, children[k][1])
            /\ get_fielddef(children[k][2]).bitshift <= p
            /\ p < get_fielddef(children[k][2]).bitshift + get_fielddef(children[k][2]).bits}

\* C8: a write through set_field into sub-fields of a bit-field word leaves
\* every bit of the word outside the written sub-fields' ranges
\* [bitshift, bitshift+bits) as it was.
BitFieldContained ==
    (op.name = "set_field" /\ op.field \in BitFields) =>
        LET children == DictGet(CONFIG.info.template, op.field).children
            d == get_fielddef(children[1][2])
            before == unpack_from(d.format_, op.before, d.baseaddr).i
            after == unpack_from(d.format_, result, d.baseaddr).i
        IN \A p \in (0..(WordBits(d.format_) - 1)) \ WrittenBits(children, op.data) :
              Bit(after, p) = Bit(before, p)

PwmAddr == DictGet(CONFIG.info.template, "pwm_value").addrdef[1]
PwmDimension == DictGet(CONFIG.info.template, "pwm_value").arraydef[1]

\* C9: an array longer than the declared dimension given to set_field sets
\* exit status 9; without ignore-warnings the run stops there with the
\* buffer as it was; with ignore-warnings the run goes on, each of the first
\* `dimension` elements that passes the field's validator is written at its
\* slot and every byte outside the array, the bytes after its last slot
\* included, is as it was.
ArrayCapacityEnforced ==
    (op.name = "set_field" /\ op.field = "pwm_value"
     /\ Len(op.data.s) > PwmDimension) =>
        /\ EXIT_CODE = RESTORE_DATA_ERROR
        /\ halted = ~ARGS.ignorewarning
        /\ halted => result = op.before
        /\ ~halted =>
              /\ \A i \in 0..(PwmDimension - 1) :
                    Slice(result, PwmAddr + 2 * i, PwmAddr + 2 * i + 2) =
                        IF 0 <= op.data.s[i + 1].i /\ op.data.s[i + 1].i <= 1023
                        THEN LittleEndian(op.data.s[i + 1].i, 2)
                        ELSE Slice(op.before, PwmAddr + 2 * i, PwmAddr + 2 * i + 2)
              /\ \A a \in 0..(Len(result) - 1) :
                    (a < PwmAddr \/ a >= PwmAddr + 2 * PwmDimension)
                        => At(result, a) = At(op.before, a)
              /\ Len(result) = Len(op.before)

ArrayTruncatedWitness ==
    /\ op.name = "set_field" /\ op.field = "pwm_value"
    /\ op.data = Ints(<<1, 2, 3, 4, 5, 6>>)
    /\ ARGS.ignorewarning /\ ~halted /\ EXIT_CODE = RESTORE_DATA_ERROR
    /\ Slice(op.before, PwmAddr, PwmAddr + 10) = Zeros(10)
    /\ Slice(result, PwmAddr, PwmAddr + 10) = <<1, 0, 2, 0, 3, 0, 4, 0, 5, 0>>
    /\ At(result, PwmAddr + 10) = At(op.before, PwmAddr + 10)

AltitudeAddr == DictGet(CONFIG.info.template, "altitude").addrdef[1]

\* C10: writing 40000 to altitude ('<h', validator -30000 <= $ <= 30000)
\* fails with exit status 9 and leaves the buffer as it was; writing -30000
\* changes the two bytes of the field only, to D0 8A, raises no error, and
\* reading the field back gives -30000.
AltitudeValidated ==
    /\ (op.name = "set_field" /\ op.field = "altitude" /\ op.data = IntV(40000)) =>
          /\ EXIT_CODE = RESTORE_DATA_ERROR
          /\ halted = ~ARGS.ignorewarning
          /\ result = op.before
    /\ (op.name = "set_field" /\ op.field = "altitude" /\ op.data = IntV(-30000)) =>
          /\ ~halted
          /\ EXIT_CODE = op.code
          /\ result = Splice(op.before, AltitudeAddr, <<208, 138>>)
    /\ (op.name = "get_field" /\ op.field = "altitude" /\ op.data = IntV(-30000)) =>
          op.value = IntV(-30000)

AltitudeWitness ==
    /\ op.name = "get_field" /\ op.field = "altitude" /\ op.data = IntV(-30000)
    /\ Slice(op.before, AltitudeAddr, AltitudeAddr + 2) = <<0, 0>>
    /\ Slice(result, AltitudeAddr, AltitudeAddr + 2) = <<208, 138>>
    /\ op.value = IntV(-30000)
    /\ EXIT_CODE = ExitOK

(***************************************************************************)
(* Decoding an image, encoding a mapping over it, and decoding the result  *)
(* again.                                                                  *)
(***************************************************************************)
MapVersions ==
    {OldestVersion, V_6_0_0, V_6_2_1_14, V_6_6_0_10 - 1, V_6_6_0_10,
     V_6_6_0_11, V_8_0_0_1, V_8_2_0_4}

MapImage(version, weight) == Stamp(RawImage(version, 5, 10, Secret, weight), version)

MapImages ==
    {MapImage(v, 1000) : v \in MapVersions}
    \cup {MapImage(v, w) : v \in {V_6_2_1_14, V_8_2_0_4}, w \in {0, 1500}}

\* the restore mappings of a run: the mapping decoded from the image itself,
\* a mapping with one changed value, and one with a name no template has
MapTrees == {CONFIG.mapping, One("altitude", IntV(1234)), One("obsolete", IntV(1))}

InitMap ==
    /\ \E w \in BOOLEAN : ARGS = [DefaultArgs EXCEPT !.ignorewarning = w]
    /\ Start

LoadMapImage == \E image \in MapImages : LoadConfig(decrypt_encrypt(image))

Mapping2Bin ==
    /\ ~halted
    /\ op.name = "load"
    /\ \E jsonconfig \in MapTrees :
          \E m \in {mapping2bin(CONFIG, jsonconfig,
                                 [dobj |-> <<>>, code |-> EXIT_CODE, halt |-> FALSE])} :
             /\ result' = IF m.halt THEN result ELSE m.dobj
             /\ EXIT_CODE' = m.code
             /\ halted' = m.halt
             /\ op' = [op EXCEPT !.name = "mapping2bin", !.n = 1, !.data = jsonconfig,
                                 !.before = CONFIG.decode, !.code = EXIT_CODE]
    /\ UNCHANGED <<ARGS, CONFIG, written>>

\* a later run decodes the image the encoding produced
Bin2Mapping ==
    /\ ~halted
    /\ op.name = "mapping2bin"
    /\ \E b \in {bin2mapping(result, [code |-> ExitOK, halt |-> FALSE])} :
          /\ EXIT_CODE' = b.m.code
          /\ halted' = b.m.halt
          /\ op' = [op EXCEPT !.name = "bin2mapping", !.value = b.mapping,
                              !.code = EXIT_CODE]
    /\ UNCHANGED <<ARGS, CONFIG, result, written>>

NextMap == LoadMapImage \/ Mapping2Bin \/ Bin2Mapping

SpecMap == InitMap /\ [][NextMap]_vars

\* the addresses of the fields set_field never writes (write converter
\* False) and of the checksum slots
Exempt(template) ==
    {a \in 0..(MaxSize - 1) :
        \E k \in 1..Len(template) :
            /\ template[k][2].format.type # "dict"
            /\ \/ get_fielddef(template[k][2]).writeconverter = "False"
               \/ template[k][1] \in {"cfg_crc", "cfg_crc32"}
            /\ template[k][2].addrdef[1] <= a
            /\ a < template[k][2].addrdef[1] + get_fieldlength(template[k][2])}

\* C1: encoding the mapping decoded from an image over that image gives the
\* image back byte for byte, except at the addresses of fields that are not
\* writable and of the checksum slots.
RoundTripExact ==
    (op.name = "mapping2bin" /\ ~halted /\ op.data = CONFIG.mapping) =>
        /\ Len(result) = Len(CONFIG.decode)
        /\ \A a \in (0..(Len(result) - 1)) \ Exempt(CONFIG.info.template) :
              At(result, a) = At(CONFIG.decode, a)

\* the checksum slot mapping2bin patches holds the checksum of the buffer
SlotHoldsChecksum(template, dobj) ==
    IF HasKey(template, "cfg_crc32")
    THEN PyEq(unpack_from(DictGet(template, "cfg_crc32").format, dobj,
                          DictGet(template, "cfg_crc32").addrdef[1]),
              get_settingcrc32(dobj))
    ELSE HasKey(template, "cfg_crc") =>
            PyEq(unpack_from(DictGet(template, "cfg_crc").format, dobj,
                             DictGet(template, "cfg_crc").addrdef[1]),
                 get_settingcrc(dobj))

\* C2: after mapping2bin has encoded a mapping it raised no error for, the
\* checksum slot of the template holds the checksum recomputed over the
\* output, and bin2mapping of the output raises no DATA_CRC_ERROR.
ChecksumRevalidates ==
    /\ (op.name = "mapping2bin" /\ ~halted /\ EXIT_CODE = ExitOK) =>
          SlotHoldsChecksum(CONFIG.info.template, result)
    /\ (op.name = "bin2mapping" /\ op.code = ExitOK) => EXIT_CODE # DATA_CRC_ERROR

(***************************************************************************)
(* A restore run: the image is loaded and a restore mapping is encoded     *)
(* over it; the result is pushed to the device or written to the file      *)
(* unless it is the image that was loaded.                                 *)
(***************************************************************************)
RestoreImages == {MapImage(V_8_2_0_4, 1000), MapImage(V_6_2_1_14, 1500)}

InitRestore ==
    /\ \E w, force, dry \in BOOLEAN, target \in {"device", "file"} :
          ARGS = [DefaultArgs EXCEPT !.ignorewarning = w, !.forcerestore = force,
                                     !.dryrun = dry, !.target = target]
    /\ Start

LoadRestoreImage == \E image \in RestoreImages : LoadConfig(decrypt_encrypt(image))

RestoreNeeded_changedonly(new_encode_cfg, config) == new_encode_cfg # config.encode

\* "if ARGS.forcerestore or new_encode_cfg != config['encode']"
RestoreNeeded(new_encode_cfg, config) ==
    ARGS.forcerestore \/ new_encode_cfg # config.encode

\* restore() for a JSON restore file; error_code is what the push to the
\* device answers
Restore ==
    /\ ~halted
    /\ op.name = "load"
    /\ \E jsonconfig \in MapTrees, error_code \in {0, 1} :
          \E m \in {mapping2bin(CONFIG, jsonconfig,
                                 [dobj |-> <<>>, code |-> EXIT_CODE, halt |-> FALSE])} :
          \E new_encode_cfg \in {decrypt_encrypt(m.dobj)} :
          LET write == ~m.halt /\ RestoreNeeded(new_encode_cfg, CONFIG) /\ ~ARGS.dryrun
              failed == write /\ ARGS.target = "device" /\ error_code # 0
          IN /\ result' = IF m.halt THEN result ELSE new_encode_cfg
             /\ written' = IF write
                           THEN Append(written, [to |-> ARGS.target,
                                                 data |-> new_encode_cfg,
                                                 error_code |-> IF failed THEN error_code
                                                                ELSE 0])
                           ELSE written
             /\ EXIT_CODE' = IF m.halt THEN m.code
                             ELSE IF ~RestoreNeeded(new_encode_cfg, CONFIG)
                             THEN RESTORE_SKIPPED
                             ELSE IF failed THEN UPLOAD_CONFIG_ERROR
                             ELSE m.code
             /\ halted' = (m.halt \/ failed)
             /\ op' = [op EXCEPT !.name = "restore", !.n = 1, !.data = jsonconfig,
                                 !.before = CONFIG.encode, !.code = EXIT_CODE,
                                 !.value = IF m.halt THEN NoneV ELSE BytesV(new_encode_cfg)]
    /\ UNCHANGED <<ARGS, CONFIG>>

\* sys.exit(EXIT_CODE) at the end of main
SysExit ==
    /\ ~halted
    /\ op.name = "restore"
    /\ halted' = TRUE
    /\ op' = [op EXCEPT !.name = "exit"]
    /\ UNCHANGED <<ARGS, EXIT_CODE, CONFIG, result, written>>

NextRestore == LoadRestoreImage \/ Restore \/ SysExit

SpecRestore == InitRestore /\ [][NextRestore]_vars

\* restore() made a candidate image and it is the loaded image, byte for byte
Identical == op.name = "restore" /\ op.value.t = "bytes" /\ op.value.s = CONFIG.encode

\* C4 as stated: when the candidate is the loaded image, without
\* force-restore nothing is written and the exit status is RESTORE_SKIPPED,
\* and with force-restore the write is performed.
IdempotentRestore ==
    Identical =>
        /\ ~ARGS.forcerestore => (written = <<>> /\ EXIT_CODE = RESTORE_SKIPPED)
        /\ ARGS.forcerestore => written # <<>>

\* C4, amended: when the candidate is the loaded image, without
\* force-restore nothing is written and the exit status is RESTORE_SKIPPED;
\* with force-restore and without dry-run the candidate is written once to
\* the target of the run; with dry-run nothing is written.
IdempotentRestoreUnlessDryRun ==
    Identical =>
        /\ ~ARGS.forcerestore => (written = <<>> /\ EXIT_CODE = RESTORE_SKIPPED)
        /\ (ARGS.forcerestore /\ ~ARGS.dryrun) =>
              /\ Len(written) = 1
              /\ written[1].to = ARGS.target
              /\ written[1].data = CONFIG.encode
        /\ ARGS.dryrun => written = <<>>

ForcedRestoreWitness ==
    /\ Identical
    /\ ARGS.forcerestore /\ ~ARGS.dryrun
    /\ Len(written) = 1 /\ written[1].data = CONFIG.encode
    /\ EXIT_CODE = ExitOK

(***************************************************************************)
(* Indexed strings: the texts of a template from 8.0.0.1 on share one      *)
(* blob, in which they follow each other separated by NUL; a field names   *)
(* its text by an index.  The device writes a separator for every text of  *)
(* its text table, so the blob of a loaded image has a separator for every *)
(* index a template uses.                                                  *)
(***************************************************************************)
MaxSets == 2

Home == <<104, 111, 109, 101>>
Guest == <<103, 117, 101, 115, 116>>

\* the blob holding the given texts, one after the other
Blob(texts, count) ==
    [k \in 1..count |-> IF k <= Len(Join(texts)) THEN Join(texts)[k] ELSE 0]

StringBlobs ==
    {Blob(<<>>, 28),
     Blob(<<<<117>>, <<>>, <<>>, <<>>, <<111, 108, 100>>, <<111, 108, 100, 101, 114>>,
            <<112, 119>>, <<>>>>, 28)}

StringImage(version, blob) ==
    Stamp(Splice(RawImage(version, 0, 0, <<>>, 0), 36, blob), version)

StringImages == {StringImage(v, b) : v \in {V_8_0_0_1, V_8_2_0_4}, b \in StringBlobs}

\* the definition of two SSID texts sharing the blob: SETTING_8_0_0_1's
\* sta_ssid, whose texts are the ones of index 4 and 5, and the same
\* definition with the texts of index 0 and 1
SsidSlots(template, strindex) ==
    [DictGet(template, "sta_ssid") EXCEPT !.addrdef = <<@[1], strindex>>]

InitStrings ==
    /\ ARGS = DefaultArgs
    /\ EXIT_CODE = 0
    /\ halted = FALSE
    /\ CONFIG = NoConfig
    /\ result = <<>>
    /\ \E strindex \in {0, 4} :
          op = [NoOp EXCEPT !.field = "sta_ssid", !.code = strindex,
                            !.data = ListV(<<NoneV, NoneV>>)]
    /\ written = <<>>

LoadStringImage == \E image \in StringImages : LoadConfig(decrypt_encrypt(image))

\* set_field for one element of the array, as the array loop of set_field
\* calls it: the sub-definition and the element's index as address offset
SetSlot ==
    /\ ~halted
    /\ op.name \in {"load", "set_slot", "get_slots"}
    /\ op.n < MaxSets
    /\ \E i \in {0, 1}, text \in {Home, Guest, <<>>} :
          /\ \E m \in {set_field([dobj |-> result, code |-> EXIT_CODE, halt |-> FALSE],
                                  PyShl(1, CONFIG.info.platform), "sta_ssid",
                                  get_subfielddef(SsidSlots(CONFIG.info.template, op.code)),
                                  StrV(text), i)} :
                /\ result' = m.dobj
                /\ EXIT_CODE' = m.code
                /\ halted' = m.halt
          /\ op' = [op EXCEPT !.name = "set_slot", !.n = op.n + 1,
                              !.data = ListV([op.data.s EXCEPT ![i + 1] = StrV(text)]),
                              !.before = result, !.value = NoneV]
    /\ UNCHANGED <<ARGS, CONFIG, written>>

\* set_field for the whole array
SetSlots ==
    /\ ~halted
    /\ op.name \in {"load", "set_slot", "get_slots"}
    /\ op.n < MaxSets
    /\ \E texts \in {<<Home, Guest>>, <<Guest, Home>>, <<Home>>} :
          /\ \E m \in {set_field([dobj |-> result, code |-> EXIT_CODE, halt |-> FALSE],
                                  PyShl(1, CONFIG.info.platform), "sta_ssid",
                                  SsidSlots(CONFIG.info.template, op.code),
                                  ListV([k \in 1..Len(texts) |-> StrV(texts[k])]), 0)} :
                /\ result' = m.dobj
                /\ EXIT_CODE' = m.code
                /\ halted' = m.halt
          /\ op' = [op EXCEPT !.name = "set_slot", !.n = op.n + 1,
                              !.data = ListV([k \in 1..2 |->
                                                 IF k <= Len(texts) THEN StrV(texts[k])
                                                 ELSE op.data.s[k]]),
                              !.before = result, !.value = NoneV]
    /\ UNCHANGED <<ARGS, CONFIG, written>>

GetSlots ==
    /\ ~halted
    /\ op.name = "set_slot"
    /\ op' = [op EXCEPT !.name = "get_slots",
                        !.value = get_field(result, PyShl(1, CONFIG.info.platform),
                                            SsidSlots(CONFIG.info.template, op.code),
                                            FALSE, 0)]
    /\ UNCHANGED <<ARGS, EXIT_CODE, halted, CONFIG, result, written>>

NextStrings == LoadStringImage \/ SetSlot \/ SetSlots \/ GetSlots

SpecStrings == InitStrings /\ [][NextStrings]_vars

BlobAddr == DictGet(CONFIG.info.template, "sta_ssid").addrdef[1]

FILE_NOT_FOUND == "None"
DMP == "dmp"
JSON == "json"
BIN == "bin"
UNKNOWN == "unknown"
INCOMPLETE_JSON == "incomplete json"
INVALID_JSON == "invalid json"
INVALID_BIN == "invalid bin"

BINARYFILE_MAGIC == 1666671139

IsSpace(c) == c \in {32, 9, 10, 13}

\* the text without the white space before and after it
Strip(text) ==
    LET kept == {j \in 1..Len(text) : ~IsSpace(text[j])}
    IN IF kept = {} THEN <<>>
       ELSE SubSeq(text, CHOOSE j \in kept : \A h \in kept : j <= h,
                         CHOOSE j \in kept : \A h \in kept : h <= j)

\* whether json.load(file) returns: the file is text and holds one JSON
\* value between white space.  Of the JSON values, the contents of the
\* model's files hold the empty containers, the three literals, a number
\* written as digits, or a string without escapes.
IsJson(content) ==
    /\ \A j \in 1..Len(content) : content[j] < 128
    /\ LET text == Strip(content)
           digits == \A j \in 1..Len(text) : 48 <= text[j] /\ text[j] <= 57
           plain == \A j \in 2..(Len(text) - 1) :
                       32 <= text[j] /\ text[j] <= 126 /\ text[j] \notin {34, 92}
       IN \/ text \in {<<123, 125>>, <<91, 93>>, <<116, 114, 117, 101>>,
                       <<102, 97, 108, 115, 101>>, <<110, 117, 108, 108>>}
          \/ (text # <<>> /\ digits /\ (Len(text) = 1 \/ text[1] # 48))
          \/ (Len(text) >= 2 /\ text[1] = 34 /\ text[Len(text)] = 34 /\ plain)

get_templatesizes_upto == 0..SETTINGS[1][2]

get_templatesizes == {SETTINGS[k][2] : k \in 1..Len(SETTINGS)}

\* the magic number looked for at the start only
HasMagic_first(inputbin, addr) ==
    PyEq(unpack_from(Fmt("<L"), inputbin, 0), IntV(BINARYFILE_MAGIC))

\* "struct.unpack_from(header_format, inputbin, addr)[0] == BINARYFILE_MAGIC"
HasMagic(inputbin, addr) ==
    PyEq(unpack_from(Fmt("<L"), inputbin, addr), IntV(BINARYFILE_MAGIC))

get_filetype(file) ==
    IF ~file.exists THEN FILE_NOT_FOUND
    ELSE IF IsJson(file.content) THEN JSON
    ELSE IF Len(file.content) \in get_templatesizes THEN DMP
    ELSE IF Len(file.content) - calcsize(Fmt("<L")) \in get_templatesizes
    THEN (IF \/ HasMagic(file.content, 0)
             \/ HasMagic(file.content, Len(file.content) - calcsize(Fmt("<L")))
          THEN BIN ELSE INVALID_BIN)
    ELSE INVALID_JSON

FileSizes == {0, 2, 4, 60, 63, 64, 65, 68, 70, 74, 76, 80, 88, 92, 96}

\* the bytes of lead, then fill up to the size, then the bytes of trail
FileContent(size, lead, fill, trail) ==
    [k \in 1..size |->
        IF k <= Len(lead) THEN lead[k]
        ELSE IF k > size - Len(trail) THEN trail[k - (size - Len(trail))]
        ELSE fill]

Magic == LittleEndian(BINARYFILE_MAGIC, 4)

Files ==
    {[exists |-> FALSE, content |-> <<>>]}
    \cup {[exists |-> TRUE, content |-> FileContent(size, lead, fill, trail)] :
            size \in FileSizes,
            lead \in {<<>>, Magic, <<123, 125>>, <<123>>, <<55>>},
            fill \in {0, 32, 255},
            trail \in {<<>>, Magic}}

InitFile ==
    /\ ARGS = DefaultArgs
    /\ EXIT_CODE = 0
    /\ halted = FALSE
    /\ CONFIG = NoConfig
    /\ result = UNKNOWN
    /\ \E file \in Files : op = [name |-> "start", file |-> file]
    /\ written = <<>>

GetFiletype ==
    /\ op.name = "start"
    /\ result' = get_filetype(op.file)
    /\ op' = [op EXCEPT !.name = "get_filetype"]
    /\ UNCHANGED <<ARGS, EXIT_CODE, halted, CONFIG, written>>

NextFile == GetFiletype

SpecFile == InitFile /\ [][NextFile]_vars

IsTemplateSize(size) == \E k \in 1..Len(SETTINGS) : SETTINGS[k][2] = size

\* the file is there, its content is no JSON, and neither its size nor its
\* size less the four bytes of the magic number is the size of a template
Unrecognised ==
    /\ op.name = "get_filetype"
    /\ op.file.exists
    /\ ~IsJson(op.file.content)
    /\ ~IsTemplateSize(Len(op.file.content))
    /\ ~IsTemplateSize(Len(op.file.content) - 4)

Pw1 == <<112, 119, 49>>
Pw2 == <<112, 119, 50>>

\* the texts of the blob by index: the WiFi passwords (6 and 7) and the
\* MQTT password (15)
BlobTexts(mqtt, sta1, sta2) ==
    [k \in 1..16 |-> CASE k = 7 -> sta1 [] k = 8 -> sta2 [] k = 16 -> mqtt [] OTHER -> <<>>]

PasswordImage(version, mqtt, sta1, sta2) ==
    IF version < V_8_0_0_1 THEN RawImage(version, 0, 0, mqtt, 0)
    ELSE Splice(RawImage(version, 0, 0, <<>>, 0), 36, Blob(BlobTexts(mqtt, sta1, sta2), 28))

\* the image with the 16-bit checksum of its content at 0x00E
Stamp16(image, version) ==
    Splice(image, 14, LittleEndian(Checksum16(image, SizeOf(version)), 2))

\* the image with the CRC-32 of its content in its last four bytes
Stamp32(image) ==
    Splice(image, Len(image) - 4, pack(Fmt("<L"), get_settingcrc32(image)).bytes)

\* the image with another size declared in the header
Declared(image, size) == Splice(image, 2, LittleEndian(size, 2))

Plain(version) == RawImage(version, 0, 0, <<>>, 0)

DecodeImages ==
    {Stamp(PasswordImage(v, mqtt, sta[1], sta[2]), v) :
        v \in {V_6_2_1_14, V_8_2_0_4},
        mqtt \in {Secret, NewPw, HIDDEN_PASSWORD.s, <<>>},
        sta \in {<<<<>>, <<>>>>, <<Pw1, Pw2>>}}
    \cup UNION {{Stamp(Declared(Plain(v), size), v) :
                    size \in {0, SizeOf(v) - 1, SizeOf(v) + 1}} :
                  v \in {V_6_0_0, V_6_6_0_11, V_8_2_0_4}}
    \cup {Stamp16(Declared(Plain(V_6_2_1_14) \o Zeros(12), 88), V_6_2_1_14),
          Plain(OldestVersion)}
    \cup UNION {{Stamp16(Plain(v), v), Stamp32(Plain(v)), Plain(v)} :
                  v \in {V_6_6_0_10 - 1, V_6_6_0_10, V_6_6_0_11, V_8_0_0_1}}

InitDecode ==
    /\ \E w, hide \in BOOLEAN :
          ARGS = [DefaultArgs EXCEPT !.ignorewarning = w, !.jsonhidepw = hide]
    /\ Start

LoadDecodeImage == \E image \in DecodeImages : LoadConfig(decrypt_encrypt(image))

\* get_field for one field of the loaded image, converted or raw
GetPasswordField ==
    /\ ~halted
    /\ op.name = "load"
    /\ \E name \in {"mqtt_pwd", "sta_pwd"}, raw \in BOOLEAN :
          /\ HasKey(CONFIG.info.template, name)
          /\ op' = [name |-> "get_field", field |-> name, raw |-> raw,
                    value |-> get_field(CONFIG.decode, PyShl(1, CONFIG.info.platform),
                                        DictGet(CONFIG.info.template, name), raw, 0)]
    /\ UNCHANGED <<ARGS, EXIT_CODE, halted, CONFIG, result, written>>

NextDecode == LoadDecodeImage \/ GetPasswordField

SpecDecode == InitDecode /\ [][NextDecode]_vars

\* the decoded value of a password field when it is masked
Masked(fielddef) ==
    IF fielddef.arraydef = <<>> THEN HIDDEN_PASSWORD
    ELSE ListV([k \in 1..fielddef.arraydef[1] |-> HIDDEN_PASSWORD])

PasswordFields(template) ==
    {k \in 1..Len(template) : template[k][2].converter = <<"passwordread", "passwordwrite">>}

\* C13: with password hiding enabled every password field of a decoded
\* image, and every element of a password array, decodes to '********'
\* whatever bytes are stored: in the mapping bin2mapping returns and in a
\* read of the field through get_field, raw or converted.
PasswordsMasked ==
    ARGS.jsonhidepw =>
        /\ (op.name = "load" /\ ~halted) =>
              \A k \in PasswordFields(CONFIG.info.template) :
                  DictGet(CONFIG.mapping.s, CONFIG.info.template[k][1])
                      = Masked(CONFIG.info.template[k][2])
        /\ op.name = "get_field" =>
              op.value = Masked(DictGet(CONFIG.info.template, op.field))

PasswordsMaskedWitness ==
    /\ ARGS.jsonhidepw
    /\ op.name = "get_field" /\ op.field = "sta_pwd" /\ op.raw
    /\ op.value = ListV(<<HIDDEN_PASSWORD, HIDDEN_PASSWORD>>)
    /\ DictGet(CONFIG.mapping.s, "mqtt_pwd") = HIDDEN_PASSWORD
    /\ Slice(CONFIG.decode, 36 + 6, 36 + 13) = Pw1 \o <<0>> \o Pw2
    /\ Slice(CONFIG.decode, 36 + 21, 36 + 27) = Secret

\* the template of the registry entry an image's version resolves to
TemplateFor(image) ==
    Setting(SortedSETTINGS[FirstMatch(SortedSETTINGS, StoredVersion(image))][1])

\* the size the header of an image declares
DeclaredSize(image) == At(image, 2) + 256 * At(image, 3)

\* C14: for a template with a cfg_size field, a declared size below the
\* template's size ends the run with DATA_SIZE_MISMATCH (4), and a declared
\* size above it is tolerated: no size mismatch is reported and the image
\* is decoded.
DeclaredSizeChecked ==
    (op.name = "load" /\ HasKey(TemplateFor(CONFIG.decode), "cfg_size")) =>
        LET declared == DeclaredSize(CONFIG.decode)
            required == SizeOf(StoredVersion(CONFIG.decode))
        IN /\ declared < required => (halted /\ EXIT_CODE = DATA_SIZE_MISMATCH)
           /\ declared > required =>
                 /\ EXIT_CODE # DATA_SIZE_MISMATCH
                 /\ EXIT_CODE = ExitOK => (~halted /\ CONFIG.mapping.t = "dict")

\* the version of the registry entry that first defines the cfg_crc32 slot
FirstCrc32Version ==
    CHOOSE v \in {w \in RegistryVersions : HasKey(Setting(w), "cfg_crc32")} :
        \A w \in RegistryVersions : HasKey(Setting(w), "cfg_crc32") => v <= w

\* the value a checksum slot of an image holds
Slot(image, name) ==
    unpack_from(DictGet(TemplateFor(image), name).format, image,
                DictGet(TemplateFor(image), name).addrdef[1])

\* C20: bin2mapping reports a checksum error for an image of a version at
\* or above the first one whose template has the cfg_crc32 slot exactly
\* when the slot differs from the CRC-32 of the image, and for an image of
\* an older version exactly when cfg_crc differs from the 16-bit checksum.
AuthoritativeChecksum ==
    (/\ op.name = "load"
     /\ HasKey(TemplateFor(CONFIG.decode), "cfg_crc")
     /\ DeclaredSize(CONFIG.decode) = SizeOf(StoredVersion(CONFIG.decode))) =>
        IF StoredVersion(CONFIG.decode) >= FirstCrc32Version
        THEN EXIT_CODE = DATA_CRC_ERROR
                <=> ~PyEq(Slot(CONFIG.decode, "cfg_crc32"), get_settingcrc32(CONFIG.decode))
        ELSE EXIT_CODE = DATA_CRC_ERROR
                <=> ~PyEq(Slot(CONFIG.decode, "cfg_crc"), get_settingcrc(CONFIG.decode))

\* C15: when the template an image resolves to has no config_version field
\* the platform index is 0; when the stored config_version is not below the
\* number of platforms the run continues with the platform index 0.
PlatformClamped ==
    (op.name = "get_config_info" /\ Qualifying(StoredVersion(op.arg)) # {}) =>
        IF HasKey(TemplateFor(op.arg), "config_version")
        THEN At(op.arg, DictGet(TemplateFor(op.arg), "config_version").addrdef[1])
                >= Len(PLATFORMS) => (~halted /\ result.platform = 0)
        ELSE ~halted /\ result.platform = 0

(***************************************************************************)
(* Encoding restore trees of several fields over a loaded image: a tree    *)
(* names fields in the order of the JSON file, and one of them may hold a  *)
(* value set_field rejects or name a field that is not writable.           *)
(***************************************************************************)
LongText == [k \in 1..28 |-> 120]

Range(from, count) == from..(from + count - 1)

\* restore values set_field rejects, each with the addresses of the field
\* (or array element) it is for
RejectedWrites ==
    {<<"altitude", IntV(40000), Range(24, 2)>>,
     <<"altitude", IntV(-30001), Range(24, 2)>>,
     <<"timezone", IntV(14), Range(22, 1)>>,
     <<"flag", One("button_restrict", IntV(2)), Range(16, 4)>>,
     <<"mqtt_pwd", StrV(LongText), Range(36, 28)>>,
     <<"sta_ssid", ListV(<<StrV(LongText)>>), Range(36, 28)>>,
     <<"weight_max", IntV(-1), Range(72, 2)>>,
     <<"pwm_value", Ints(<<1, 2000, 3>>), Range(28, 2)>>}

\* restore values set_field accepts, each with the address and the bytes
\* the field holds afterwards
AcceptedWrites ==
    {<<"save_data", IntV(100), 20, <<100, 0>> >>,
     <<"timezone", IntV(5), 22, <<5>> >>,
     <<"altitude", IntV(1234), 24, <<210, 4>> >>}

\* values for fields that are not writable
ReadonlyNames == {"save_flag", "version", "bootcount", "cfg_size", "config_version"}

ReadonlyValues ==
    {IntV(5), IntV(-1), IntV(70000), StrV(LongText), Ints(<<1, 2>>),
     One("rule1", IntV(1)), NoneV}

Item(write) == <<write[1], write[2]>>

\* a tree is its items in file order, the addresses of the rejected value
\* (if any) and the accepted writes
RestoreTrees ==
    UNION {{[items |-> <<Item(before), Item(bad), Item(after)>>,
             rejected |-> bad[3], accepted |-> {before, after}],
            [items |-> <<Item(bad), Item(after)>>,
             rejected |-> bad[3], accepted |-> {after}]} :
           before \in {g \in AcceptedWrites : g[1] = "save_data"},
           after \in {g \in AcceptedWrites : g[1] # "save_data"},
           bad \in RejectedWrites}
    \cup {[items |-> <<Item(g)>>, rejected |-> {}, accepted |-> {g}] :
             g \in AcceptedWrites}
    \cup {[items |-> << <<name, value>> >>, rejected |-> {}, accepted |-> {}] :
             name \in ReadonlyNames, value \in ReadonlyValues}
    \cup {[items |-> << <<name, IntV(7)>>, Item(g)>>, rejected |-> {}, accepted |-> {g}] :
             name \in ReadonlyNames, g \in AcceptedWrites}

\* a rejected value and an accepted one are never for the same field
TreeOK(tree) ==
    \A j, k \in 1..Len(tree.items) : j # k => tree.items[j][1] # tree.items[k][1]

TreeImages == {MapImage(v, 1000) : v \in {V_6_2_1_14, V_8_2_0_4}}

InitTree ==
    /\ \E w \in BOOLEAN : ARGS = [DefaultArgs EXCEPT !.ignorewarning = w]
    /\ Start

LoadTreeImage == \E image \in TreeImages : LoadConfig(decrypt_encrypt(image))

\* mapping2bin for a tree of the restore file
EncodeTree ==
    /\ ~halted
    /\ op.name = "load"
    /\ \E tree \in {t \in RestoreTrees : TreeOK(t)} :
          /\ \A k \in 1..Len(tree.items) : HasKey(CONFIG.info.template, tree.items[k][1])
          /\ \E m \in {mapping2bin(CONFIG, DictV(tree.items),
                                    [dobj |-> <<>>, code |-> EXIT_CODE, halt |-> FALSE])} :
                /\ result' = IF m.halt THEN result ELSE m.dobj
                /\ EXIT_CODE' = m.code
                /\ halted' = m.halt
          /\ op' = [name |-> "mapping2bin", tree |-> tree, before |-> CONFIG.decode,
                    code |-> EXIT_CODE]
    /\ UNCHANGED <<ARGS, CONFIG, written>>

NextTree == LoadTreeImage \/ EncodeTree

SpecTree == InitTree /\ [][NextTree]_vars

EncodedTree == op.name = "mapping2bin" /\ "tree" \in DOMAIN op

\* C16: when a value of the tree is rejected by set_field, the run ends
\* with RESTORE_DATA_ERROR (9) unless ignore-warnings is set; with
\* ignore-warnings set the run goes on, the bytes of the rejected field are
\* the ones of the base image and every other field of the tree holds its
\* new value.
StrictOrLenient ==
    (EncodedTree /\ op.tree.rejected # {}) =>
        IF ~ARGS.ignorewarning
        THEN halted /\ EXIT_CODE = RESTORE_DATA_ERROR
        ELSE /\ ~halted
             /\ EXIT_CODE = RESTORE_DATA_ERROR
             /\ \A a \in op.tree.rejected : At(result, a) = At(op.before, a)
             /\ \A g \in op.tree.accepted :
                   Slice(result, g[3], g[3] + Len(g[4])) = g[4]

\* a lenient run went past a rejected value and changed a later field
LenientWitness ==
    /\ EncodedTree
    /\ ARGS.ignorewarning
    /\ Len(op.tree.items) = 3
    /\ op.tree.rejected = Range(24, 2)
    /\ ~halted
    /\ At(result, 22) = 5
    /\ At(op.before, 22) # 5
    /\ At(result, 20) = 100

\* the addresses of the not-writable fields a tree names
ReadonlyAddresses(template, items) ==
    UNION {Range(DictGet(template, items[k][1]).addrdef[1],
                 calcsize(DictGet(template, items[k][1]).format)) :
           k \in {j \in 1..Len(items) : items[j][1] \in ReadonlyNames}}

\* C18: a value for a not-writable field, whatever it is, leaves the bytes
\* of the field as they are and raises no error; a tree of such values
\* only gives back the base image.
ReadonlySkipped ==
    (EncodedTree /\ \E k \in 1..Len(op.tree.items) : op.tree.items[k][1] \in ReadonlyNames) =>
        /\ ~halted
        /\ EXIT_CODE = ExitOK
        /\ \A a \in ReadonlyAddresses(CONFIG.info.template, op.tree.items) :
              At(result, a) = At(op.before, a)
        /\ op.tree.accepted = {} => result = op.before

\* a text was supplied for the numeric, not-writable version field
ReadonlyWitness ==
    /\ EncodedTree
    /\ op.tree.items = << <<"version", StrV(LongText)>> >>
    /\ ~halted
    /\ result = op.before
    /\ EXIT_CODE = ExitOK

(***************************************************************************)
(* Backup and restore steps of a run, with and without --dry-run.  The     *)
(* variable written records every write of a file and every upload to the  *)
(* device, in order.  A restore file is its bytes, or the tree json.load   *)
(* returns for it.                                                         *)
(***************************************************************************)
MaxSteps == 2

EXIT_FILE_NOT_FOUND == 3
FILE_READ_ERROR == 7
JSON_READ_ERROR == 8
INTERNAL_ERROR == 21

WriteAllowed_always(args) == TRUE

\* "if not ARGS.dryrun" before every write of backup() and restore()
WriteAllowed(args) == ~args.dryrun

\* what backup_dmp, backup_bin and backup_json write; the JSON text is
\* recorded as the mapping it is the text of
BackupContent(format, config) ==
    CASE format = DMP -> BytesV(config.encode)
      [] format = BIN -> BytesV(config.decode \o Magic)
      [] OTHER -> config.mapping

BackupFormats == {DMP, BIN, JSON, "tasmota"}

DryRunImages == {MapImage(v, 1000) : v \in {V_6_2_1_14, V_8_2_0_4}}

\* another configuration of the same device
Altered(decode_cfg) == Stamp(Splice(decode_cfg, 24, <<210, 4>>), StoredVersion(decode_cfg))

NoTree == NoneV

\* the restore files of a run
RestoreFiles(config) ==
    {[exists |-> FALSE, content |-> <<>>, tree |-> NoTree]}
    \cup {[exists |-> TRUE, content |-> content, tree |-> NoTree] :
             content \in {config.encode,
                          decrypt_encrypt(Altered(config.decode)),
                          config.decode \o Magic,
                          Magic \o Altered(config.decode),
                          config.decode \o <<0, 0, 0, 0>>,
                          <<1, 2, 3>>}}
    \cup {[exists |-> TRUE, content |-> <<>>, tree |-> tree] :
             tree \in {config.mapping, One("altitude", IntV(1234))}}

\* get_filetype for a restore file
RestoreFileType(file) ==
    IF file.tree.t = "dict" THEN JSON
    ELSE get_filetype([exists |-> file.exists, content |-> file.content])

\* the first part of restore(): the candidate image of the restore file,
\* or the end of the run
Candidate(file, config, m0) ==
    LET filetype == RestoreFileType(file)
        skip == calcsize(Fmt("<L"))
    IN CASE filetype = DMP -> [m |-> m0, new_encode_cfg |-> file.content]
         [] filetype = BIN ->
              [m |-> m0,
               new_encode_cfg |->
                   decrypt_encrypt(IF HasMagic(file.content, 0)
                                   THEN SubSeq(file.content, skip + 1, Len(file.content))
                                   ELSE SubSeq(file.content, 1, Len(file.content) - skip))]
         [] filetype = JSON ->
              Bind(mapping2bin(config, file.tree, m0), LAMBDA m :
                   [m |-> m, new_encode_cfg |-> decrypt_encrypt(m.dobj)])
         [] filetype = INVALID_JSON ->
              [m |-> exit_(m0, JSON_READ_ERROR, TRUE), new_encode_cfg |-> <<>>]
         [] filetype = FILE_NOT_FOUND ->
              [m |-> exit_(m0, EXIT_FILE_NOT_FOUND, TRUE), new_encode_cfg |-> <<>>]
         [] filetype = INCOMPLETE_JSON ->
              [m |-> exit_(m0, JSON_READ_ERROR, TRUE), new_encode_cfg |-> <<>>]
         [] OTHER ->
              [m |-> exit_(m0, FILE_READ_ERROR, TRUE), new_encode_cfg |-> <<>>]

InitDryRun ==
    /\ \E force \in BOOLEAN, dry \in BOOLEAN, target \in {"device", "file"} :
          ARGS = [DefaultArgs EXCEPT !.forcerestore = force, !.dryrun = dry,
                                     !.target = target]
    /\ Start

LoadDryRunImage == \E image \in DryRunImages : LoadConfig(decrypt_encrypt(image))

\* backup(); raised is whether writing the file raises an exception
Backup ==
    /\ ~halted
    /\ op.name \in {"load", "backup", "restore"}
    /\ op.n < MaxSteps
    /\ \E backupfileformat \in BackupFormats, raised \in BOOLEAN :
          LET known == backupfileformat \in {DMP, BIN, JSON}
              write == known /\ WriteAllowed(ARGS)
              failed == write /\ raised
          IN /\ written' = IF write
                           THEN Append(written,
                                       [to |-> "backup",
                                        data |-> BackupContent(backupfileformat, CONFIG),
                                        error_code |-> IF failed THEN 1 ELSE 0])
                           ELSE written
             /\ EXIT_CODE' = IF failed THEN INTERNAL_ERROR ELSE EXIT_CODE
             /\ halted' = failed
             /\ op' = [op EXCEPT !.name = "backup", !.n = op.n + 1,
                                 !.field = backupfileformat, !.code = EXIT_CODE]
    /\ UNCHANGED <<ARGS, CONFIG, result>>

\* restore(); error_code is what the upload to the device answers or
\* whether writing the file raises an exception
RestoreFile ==
    /\ ~halted
    /\ op.name \in {"load", "backup", "restore"}
    /\ op.n < MaxSteps
    /\ \E file \in RestoreFiles(CONFIG), error_code \in {0, 1} :
          \E c \in {Candidate(file, CONFIG, [dobj |-> <<>>, code |-> EXIT_CODE,
                                             halt |-> FALSE])} :
          LET needed == ~c.m.halt /\ RestoreNeeded(c.new_encode_cfg, CONFIG)
              write == needed /\ WriteAllowed(ARGS)
              failed == write /\ error_code # 0
          IN /\ result' = IF c.m.halt THEN result ELSE c.new_encode_cfg
             /\ written' = IF write
                           THEN Append(written, [to |-> ARGS.target,
                                                 data |-> BytesV(c.new_encode_cfg),
                                                 error_code |-> IF failed THEN error_code
                                                                ELSE 0])
                           ELSE written
             /\ EXIT_CODE' = IF c.m.halt THEN c.m.code
                             ELSE IF ~needed THEN RESTORE_SKIPPED
                             ELSE IF failed
                             THEN (IF ARGS.target = "device" THEN UPLOAD_CONFIG_ERROR
                                   ELSE INTERNAL_ERROR)
                             ELSE c.m.code
             /\ halted' = (c.m.halt \/ failed)
             /\ op' = [op EXCEPT !.name = "restore", !.n = op.n + 1,
                                 !.field = RestoreFileType(file),
                                 !.before = CONFIG.encode, !.code = EXIT_CODE,
                                 !.value = IF needed THEN BytesV(c.new_encode_cfg)
                                           ELSE NoneV]
    /\ UNCHANGED <<ARGS, CONFIG>>

NextDryRun == LoadDryRunImage \/ Backup \/ RestoreFile

SpecDryRun == InitDryRun /\ [][NextDryRun]_vars

\* C17: with --dry-run set, whatever backup and restore steps a run takes,
\* no backup file and no Tasmota file is written and nothing is uploaded to
\* the device.
DryRunWritesNothing == ARGS.dryrun => written = <<>>

\* a dry run took two steps, the last of them a restore whose candidate
\* differs from the loaded image
DryRunWitness ==
    /\ ARGS.dryrun
    /\ op.name = "restore"
    /\ op.n = 2
    /\ op.value.t = "bytes"
    /\ op.value.s # CONFIG.encode
    /\ ~halted
    /\ written = <<>>

(***************************************************************************)
(* Tasmota commands of a decoded image.  The command of a definition is    *)
(* its group and its format text: "Word {}".format($) is the word, a blank *)
(* and the value, "Word{} {}".format(#,$) has the one-based array index    *)
(* after the word.  A command mapping is the groups in the order of their  *)
(* first command, each with its commands in order.                          *)
(***************************************************************************)
NoCmnd == [group |-> "None", word |-> <<>>, indexed |-> FALSE]

\* (group, tasmotacmnd) of the definition of a field, by the field's name
cmd(fieldname) ==
    CASE fieldname = "save_data" ->
             [group |-> "Management", word |-> <<83, 97, 118, 101, 68, 97, 116, 97>>, indexed |-> FALSE]   \* line 551: SaveData
      [] fieldname = "timezone" ->
             [group |-> "Management", word |-> <<84, 105, 109, 101, 122, 111, 110, 101>>, indexed |-> FALSE]   \* line 552: Timezone
      [] fieldname = "sta_ssid" ->
             [group |-> "Wifi", word |-> <<83, 83, 73, 100>>, indexed |-> TRUE]   \* line 558: SSId
      [] fieldname = "sta_pwd" ->
             [group |-> "Wifi", word |-> <<80, 97, 115, 115, 119, 111, 114, 100>>, indexed |-> TRUE]   \* line 559: Password
      [] fieldname = "mqtt_pwd" ->
             [group |-> "MQTT", word |-> <<77, 113, 116, 116, 80, 97, 115, 115, 119, 111, 114, 100>>, indexed |-> FALSE]   \* line 571: MqttPassword
      [] fieldname = "pwm_value" ->
             [group |-> "Management", word |-> <<80, 119, 109>>, indexed |-> TRUE]   \* line 587: Pwm
      [] fieldname = "altitude" ->
             [group |-> "Sensor", word |-> <<65, 108, 116, 105, 116, 117, 100, 101>>, indexed |-> FALSE]   \* line 588: Altitude
      [] fieldname = "weight_max" ->
             [group |-> "Management", word |-> <<83, 101, 110, 115, 111, 114, 51, 52, 32, 53>>, indexed |-> FALSE]   \* line 849: Sensor34 5
      [] fieldname = "save_state" ->
             [group |-> "SetOption", word |-> <<83, 101, 116, 79, 112, 116, 105, 111, 110, 48>>, indexed |-> FALSE]   \* line 532: SetOption0
      [] fieldname = "button_restrict" ->
             [group |-> "SetOption", word |-> <<83, 101, 116, 79, 112, 116, 105, 111, 110, 49>>, indexed |-> FALSE]   \* line 533: SetOption1
      [] fieldname = "mqtt_enabled" ->
             [group |-> "SetOption", word |-> <<83, 101, 116, 79, 112, 116, 105, 111, 110, 51>>, indexed |-> FALSE]   \* line 535: SetOption3
      [] fieldname = "rule1" ->
             [group |-> "Rules", word |-> <<82, 117, 108, 101, 49>>, indexed |-> FALSE]   \* line 756: Rule1
      [] fieldname = "rule2" ->
             [group |-> "Rules", word |-> <<82, 117, 108, 101, 50>>, indexed |-> FALSE]   \* line 757: Rule2
      [] fieldname = "rule3" ->
             [group |-> "Rules", word |-> <<82, 117, 108, 101, 51>>, indexed |-> FALSE]   \* line 758: Rule3
      [] fieldname = "light_speed" ->
             [group |-> "Light", word |-> <<83, 112, 101, 101, 100>>, indexed |-> FALSE]   \* line 638: Speed
      [] fieldname \in {"flag", "rule_enabled"} ->
             [group |-> IF fieldname = "flag" THEN "SetOption" ELSE "Rules",
              word |-> <<>>, indexed |-> FALSE]
      [] fieldname \in {"cfg_holder", "version", "bootcount", "cfg_size", "cfg_crc",
                        "cfg_timestamp", "cfg_crc32"} ->
             [group |-> "System", word |-> <<>>, indexed |-> FALSE]
      [] OTHER -> NoCmnd

\* group.title()
Title(group) ==
    CASE group = "MQTT" -> "Mqtt"
      [] group = "SetOption" -> "Setoption"
      [] OTHER -> group

RECURSIVE DecimalDigits(_)
DecimalDigits(n) ==
    IF n < 10 THEN <<48 + n>> ELSE DecimalDigits(n \div 10) \o <<48 + (n % 10)>>

\* "{}".format(value)
FormatValue(value) ==
    CASE value.t = "str" -> value.s
      [] value.t = "int" /\ ~IsWide(value) ->
             IF value.i < 0 THEN <<45>> \o DecimalDigits(-value.i)
             ELSE DecimalDigits(value.i)
      [] value.t = "float" ->
             (IF value.i < 0 THEN <<45>> \o DecimalDigits(-value.i)
              ELSE DecimalDigits(value.i)) \o <<46, 48>>
      [] OTHER -> <<>>

IsPasswordField(d) ==
    d.readconverter = "passwordread" \/ d.writeconverter = "passwordwrite"

cmnd_converter_unmasked(value, idx, d, tasmotacmnd) ==
    IF tasmotacmnd.word # <<>>
    THEN StrV(tasmotacmnd.word
              \o (IF tasmotacmnd.indexed /\ idx >= 0 THEN DecimalDigits(idx + 1) ELSE <<>>)
              \o <<32>> \o FormatValue(value))
    ELSE IF IsPasswordField(d) THEN value
    ELSE NoneV

\* idx is -1 for None
cmnd_converter(value, idx, d, tasmotacmnd) ==
    IF IsPasswordField(d) /\ PyEq(value, HIDDEN_PASSWORD) THEN NoneV
    ELSE IF tasmotacmnd.word # <<>>
    THEN StrV(tasmotacmnd.word
              \o (IF tasmotacmnd.indexed /\ idx >= 0 THEN DecimalDigits(idx + 1) ELSE <<>>)
              \o <<32>> \o FormatValue(value))
    ELSE IF IsPasswordField(d) THEN value
    ELSE NoneV

GroupIndex(cmnds, group) ==
    IF \E k \in 1..Len(cmnds) : cmnds[k][1] = group
    THEN CHOOSE k \in 1..Len(cmnds) : cmnds[k][1] = group
    ELSE 0

\* the helper set_cmnds of set_cmnd
set_cmnds(r, group, value, idx, d, tasmotacmnd) ==
    Bind(cmnd_converter(value, idx, d, tasmotacmnd), LAMBDA cmnd :
    IF group = "None" \/ cmnd.t = "none" THEN r
    ELSE LET k == GroupIndex(r.cmnds, group)
         IN IF k = 0
            THEN [r EXCEPT !.cmnds = Append(r.cmnds, <<group, <<cmnd.s>> >>)]
            ELSE [r EXCEPT !.cmnds[k][2] = Append(r.cmnds[k][2], cmnd.s)])

RECURSIVE set_cmnd(_, _, _, _, _, _)

\* r is the command mapping with the exit status and whether the run ended
set_cmnd(r, platform_bits, fieldname, fielddef, mappedvalue, idx) ==
    LET d == get_fielddef(fielddef) IN
    IF r.halt THEN r
    ELSE IF PyAnd(d.platform_, platform_bits) = 0 THEN r
    ELSE IF d.arraydef # <<>>
    THEN LET subfielddef == get_subfielddef(fielddef)
             length == get_fieldlength(subfielddef)
             r1 == IF Len(mappedvalue.s) > d.arraydef[1]
                   THEN [r EXCEPT !.code = RESTORE_DATA_ERROR, !.halt = ~ARGS.ignorewarning]
                   ELSE r
         IN FoldLeft(LAMBDA acc, i :
                         IF acc.halt \/ length = 0 \/ i >= Len(mappedvalue.s) THEN acc
                         ELSE set_cmnd(acc, platform_bits, fieldname, subfielddef,
                                       mappedvalue.s[i + 1], i),
                     r1, 0, d.arraydef[1] - 1)
    ELSE IF d.format_.type = "dict"
    THEN FoldLeft(LAMBDA acc, k :
                      IF acc.halt \/ DictGet(mappedvalue.s, d.children[k][1]).t = "none"
                      THEN acc
                      ELSE set_cmnd(acc, platform_bits, d.children[k][1], d.children[k][2],
                                    DictGet(mappedvalue.s, d.children[k][1]), idx),
                  r, 1, Len(d.children))
    ELSE set_cmnds(r, Title(cmd(fieldname).group), mappedvalue, idx, d, cmd(fieldname))

mapping2cmnd(config, m0) ==
    LET items == config.mapping.s
        template == config.info.template
    IN FoldLeft(LAMBDA r, k :
                    IF r.halt THEN r
                    ELSE IF HasKey(template, items[k][1])
                    THEN set_cmnd(r, PyShl(1, config.info.platform), items[k][1],
                                  DictGet(template, items[k][1]), items[k][2], -1)
                    ELSE IF items[k][1] # "header"
                    THEN [r EXCEPT !.code = RESTORE_DATA_ERROR, !.halt = ~ARGS.ignorewarning]
                    ELSE r,
                [cmnds |-> <<>>, code |-> m0.code, halt |-> m0.halt], 1, Len(items))

CmndPasswords ==
    {<<Secret, Pw1, Pw2>>, <<HIDDEN_PASSWORD.s, <<>>, Pw2>>, <<<<>>, HIDDEN_PASSWORD.s, Pw2>>,
     <<<<>>, Pw1, HIDDEN_PASSWORD.s>>, <<NewPw, <<>>, <<>>>>, <<<<>>, <<>>, <<>>>>}

CmndImages ==
    {Stamp(Splice(PasswordImage(v, pw[1], pw[2], pw[3]), 24, LittleEndian(alt, 2)), v) :
        v \in {V_6_2_1_14, V_8_2_0_4}, pw \in CmndPasswords, alt \in {0, 1234}}

InitCmnd ==
    /\ \E w, hide \in BOOLEAN :
          ARGS = [DefaultArgs EXCEPT !.ignorewarning = w, !.jsonhidepw = hide]
    /\ Start

LoadCmndImage == \E image \in CmndImages : LoadConfig(decrypt_encrypt(image))

\* "output_tasmotacmnds(mapping2cmnd(CONFIG))" of main
Mapping2Cmnd ==
    /\ ~halted
    /\ op.name = "load"
    /\ \E r \in {mapping2cmnd(CONFIG, [code |-> EXIT_CODE, halt |-> FALSE])} :
          /\ result' = r.cmnds
          /\ EXIT_CODE' = r.code
          /\ halted' = r.halt
    /\ op' = [op EXCEPT !.name = "mapping2cmnd", !.code = EXIT_CODE]
    /\ UNCHANGED <<ARGS, CONFIG, written>>

NextCmnd == LoadCmndImage \/ Mapping2Cmnd

SpecCmnd == InitCmnd /\ [][NextCmnd]_vars

\* every command of a command mapping, whatever its group
Commands(cmnds) == UNION {{cmnds[k][2][j] : j \in 1..Len(cmnds[k][2])} : k \in 1..Len(cmnds)}

StartsWith(text, prefix) ==
    Len(text) >= Len(prefix) /\ SubSeq(text, 1, Len(prefix)) = prefix

EndsWith(text, suffix) ==
    Len(text) >= Len(suffix)
    /\ SubSeq(text, Len(text) - Len(suffix) + 1, Len(text)) = suffix

\* the words the commands of a password field start with when the value of
\* the field, or of an element of it, is the mask
MaskedWords(template, mapping) ==
    UNION {LET name == template[k][1]
               value == DictGet(mapping.s, name)
               word == cmd(name).word
           IN IF value.t = "list"
              THEN {word \o DecimalDigits(i) \o <<32>> :
                       i \in {j \in 1..Len(value.s) : PyEq(value.s[j], HIDDEN_PASSWORD)}}
              ELSE IF PyEq(value, HIDDEN_PASSWORD) THEN {word \o <<32>>}
              ELSE {} :
           k \in PasswordFields(template)}

\* C19: no command of the mapping mapping2cmnd returns is for a password
\* field, or an element of a password array, whose value in the tree is
\* '********', and no command has the mask as its value.
MaskNeverEmitted ==
    op.name = "mapping2cmnd" =>
        \A command \in Commands(result) :
            /\ \A word \in MaskedWords(CONFIG.info.template, CONFIG.mapping) :
                  ~StartsWith(command, word)
            /\ ~EndsWith(command, <<32>> \o HIDDEN_PASSWORD.s)

\* the first WiFi password of the tree is the mask and the second is not:
\* there is a command for the second only
MaskNeverEmittedWitness ==
    /\ op.name = "mapping2cmnd"
    /\ ~ARGS.jsonhidepw
    /\ DictGet(CONFIG.mapping.s, "sta_pwd") = ListV(<<HIDDEN_PASSWORD, StrV(Pw2)>>)
    /\ <<80, 97, 115, 115, 119, 111, 114, 100, 50, 32, 112, 119, 50>> \in Commands(result)
    /\ \A command \in Commands(result) : ~StartsWith(command, <<80, 97, 115, 115, 119, 111, 114, 100, 49>>)
    /\ <<65, 108, 116, 105, 116, 117, 100, 101, 32, 49, 50, 51, 52>> \in Commands(result)

(***************************************************************************)
(* The range of a field's primitive.                                       *)
(***************************************************************************)
\* min_, max_ of an integer format
get_fieldminmax(fielddef) ==
    LET type == get_fielddef(fielddef).format_.type
    IN CASE type = "b" -> <<-128, 127>>
         [] type = "B" -> <<0, 255>>
         [] type = "<h" -> <<-32768, 32767>>
         [] type = "<H" -> <<0, 65535>>
         [] type = "<L" -> <<0, 65535 * 65536 + 65535>>
         [] OTHER -> <<0, 0>>

\* a write of a number to a field that is one integer of full width
FullWidthWrite ==
    /\ op.name = "set_field"
    /\ op.data.t \in {"int", "float"}
    /\ LET d == get_fielddef(DictGet(CONFIG.info.template, op.field))
       IN d.arraydef = <<>> /\ d.bits = 0 /\ d.format_.type \notin {"dict", "s"}
          /\ ~Readonly(d.writeconverter)

\* the value the write converter of the field makes of the supplied one
ConvertedWrite ==
    readwrite_converter(op.data, DictGet(CONFIG.info.template, op.field), FALSE, FALSE).i

\* C21: a converted value outside the natural range of the field's
\* primitive is rejected with RESTORE_DATA_ERROR and the bytes of the image
\* stay as they were.
NaturalRangeValidated ==
    FullWidthWrite =>
        LET minmax == get_fieldminmax(DictGet(CONFIG.info.template, op.field))
        IN (ConvertedWrite < minmax[1] \/ ConvertedWrite > minmax[2]) =>
              (EXIT_CODE = RESTORE_DATA_ERROR /\ result = op.before)

(***************************************************************************)
(* Validators.  An image may hold, in a validated field, bytes the         *)
(* validator of the field does not accept: it is decoded all the same.     *)
(***************************************************************************)
ValidatedNames == {"save_data", "timezone", "light_speed", "altitude"}

ValidateValues == {0, 1, 5, 14, 21, 99, -1, 4000, 40000}

\* an image with the given bytes of light_speed and timezone and the given
\* save_data
StoredImage(version, speed, zone, save) ==
    Stamp(Splice(Splice(RawImage(version, 0, 0, <<>>, 0), 20, LittleEndian(save, 2)),
                 22, <<zone, speed>>), version)

ValidateImages ==
    {StoredImage(v, speed, zone, save) :
        v \in {V_6_2_1_14, V_8_2_0_4}, speed \in {0, 5, 200}, zone \in {0, 50},
        save \in {0, 4000}}

InitValidate ==
    /\ \E w \in BOOLEAN : ARGS = [DefaultArgs EXCEPT !.ignorewarning = w]
    /\ Start

LoadValidateImage == \E image \in ValidateImages : LoadConfig(decrypt_encrypt(image))

\* validate_value for a value and the definition of a field
ValidateValue ==
    /\ ~halted
    /\ op.name = "load"
    /\ \E name \in ValidatedNames, n \in ValidateValues :
          op' = [name |-> "validate_value", field |-> name, value |-> n,
                 valid |-> validate_value(IntV(n), DictGet(CONFIG.info.template, name))]
    /\ UNCHANGED <<ARGS, EXIT_CODE, halted, CONFIG, result, written>>

\* set_field for a validated field of the loaded image
SetValidated ==
    /\ ~halted
    /\ op.name = "load"
    /\ \E name \in ValidatedNames, n \in ValidateValues :
          /\ \E m \in {set_field([dobj |-> result, code |-> EXIT_CODE, halt |-> FALSE],
                                  PyShl(1, CONFIG.info.platform), name,
                                  DictGet(CONFIG.info.template, name), IntV(n), 0)} :
                /\ result' = m.dobj
                /\ EXIT_CODE' = m.code
                /\ halted' = m.halt
          /\ op' = [name |-> "set_field", field |-> name, value |-> n, before |-> result]
    /\ UNCHANGED <<ARGS, CONFIG, written>>

NextValidate == LoadValidateImage \/ ValidateValue \/ SetValidated

SpecValidate == InitValidate /\ [][NextValidate]_vars

\* the bytes a validated field holds in an image
StoredBytes(image, name) ==
    LET fielddef == DictGet(CONFIG.info.template, name)
    IN Slice(image, fielddef.addrdef[1], fielddef.addrdef[1] + calcsize(fielddef.format))

\* C22: validate_value accepts 0 for every field, also where the validator
\* excludes it, and a write of 0 is stored without error; decoding an image
\* applies no validator: a stored value the validator of its field rejects
\* is decoded as it is, without error.
ZeroAlwaysValid ==
    /\ (op.name = "validate_value" /\ op.value = 0) => op.valid
    /\ (op.name = "set_field" /\ op.value = 0) =>
          /\ ~halted /\ EXIT_CODE = ExitOK
          /\ \A a \in 1..Len(StoredBytes(result, op.field)) :
                StoredBytes(result, op.field)[a] = 0
    /\ op.name = "load" =>
          /\ ~halted /\ EXIT_CODE = ExitOK
          /\ DictGet(CONFIG.mapping.s, "light_speed") = IntV(At(CONFIG.decode, 23))
          /\ DictGet(CONFIG.mapping.s, "timezone") = IntV(At(CONFIG.decode, 22))
          /\ DictGet(CONFIG.mapping.s, "save_data")
                = IntV(At(CONFIG.decode, 20) + 256 * At(CONFIG.decode, 21))

\* 0 was accepted for light_speed, whose validator is 1 <= $ <= 20, on an
\* image that was decoded with the stored speed 200
ZeroAlwaysValidWitness ==
    /\ op.name = "validate_value"
    /\ op.field = "light_speed" /\ op.value = 0 /\ op.valid
    /\ DictGet(CONFIG.info.template, "light_speed").validate = "1 <= $ <= 20"
    /\ DictGet(CONFIG.mapping.s, "light_speed") = IntV(200)
    /\ DictGet(CONFIG.mapping.s, "save_data") = IntV(4000)

(***************************************************************************)
(* The checksum and timestamp slots.  A restore tree may name cfg_crc,     *)
(* cfg_crc32 and cfg_timestamp as any other field.                         *)
(***************************************************************************)
SlotNames == <<"cfg_crc", "cfg_crc32", "cfg_timestamp">>

\* values a tree supplies for a slot: a number, or the text the decoded
\* mapping holds for it ("0x0001", "0x00000001")
SlotValues(name) ==
    CASE name = "cfg_crc" -> {IntV(1), StrV(<<48, 120, 48, 48, 48, 49>>)}
      [] name = "cfg_crc32" -> {IntV(1), StrV(<<48, 120, 48, 48, 48, 48, 48, 48, 48, 49>>)}
      [] OTHER -> {IntV(1), IntV(0)}

Altitude == <<"altitude", IntV(1234)>>

\* trees that name a slot alone, before or after another field, and trees
\* that name the three slots around another field
SlotTrees ==
    UNION {UNION {{<< <<SlotNames[k], value>> >>,
                   << <<SlotNames[k], value>>, Altitude>>,
                   <<Altitude, <<SlotNames[k], value>> >>} :
                  value \in SlotValues(SlotNames[k])} : k \in 1..Len(SlotNames)}
    \cup {<< <<"cfg_crc", IntV(1)>>, <<"cfg_timestamp", IntV(1)>>, Altitude,
             <<"cfg_crc32", IntV(1)>> >>}

\* an image saved at the given time
SavedImage(version, timestamp) ==
    IF HasKey(Setting(version), "cfg_timestamp")
    THEN Stamp(Splice(RawImage(version, 5, 10, Secret, 1000), 80,
                      LittleEndian(timestamp, 4)), version)
    ELSE MapImage(version, 1000)

SlotImages ==
    {SavedImage(v, timestamp) :
        v \in {V_6_2_1_14, V_6_6_0_10, V_6_6_0_11, V_8_2_0_4},
        timestamp \in {0, 1600000000}}

InitSlots ==
    /\ \E w \in BOOLEAN : ARGS = [DefaultArgs EXCEPT !.ignorewarning = w]
    /\ Start

LoadSlotImage == \E image \in SlotImages : LoadConfig(decrypt_encrypt(image))

\* mapping2bin for a tree that names checksum or timestamp slots
EncodeSlots ==
    /\ ~halted
    /\ op.name = "load"
    /\ \E tree \in SlotTrees :
          /\ \A k \in 1..Len(tree) : HasKey(CONFIG.info.template, tree[k][1])
          /\ \E m \in {mapping2bin(CONFIG, DictV(tree),
                                    [dobj |-> <<>>, code |-> EXIT_CODE, halt |-> FALSE])} :
                /\ result' = IF m.halt THEN result ELSE m.dobj
                /\ EXIT_CODE' = m.code
                /\ halted' = m.halt
          /\ op' = [name |-> "mapping2bin", slots |-> tree, before |-> CONFIG.decode]
    /\ UNCHANGED <<ARGS, CONFIG, written>>

NextSlots == LoadSlotImage \/ EncodeSlots

SpecSlots == InitSlots /\ [][NextSlots]_vars

EncodedSlots == op.name = "mapping2bin" /\ "slots" \in DOMAIN op /\ ~halted

\* the bytes of a field of the template in an image
FieldBytes(image, name) ==
    LET fielddef == DictGet(CONFIG.info.template, name)
    IN Slice(image, fielddef.addrdef[1], fielddef.addrdef[1] + calcsize(fielddef.format))

\* the image after the fields of the tree were applied, before any slot is
\* patched
Applied ==
    RestoreLoop([dobj |-> op.before, code |-> 0, halt |-> FALSE], CONFIG, op.slots).dobj

\* C23: in the output of mapping2bin every checksum slot of the
\* template holds the checksum computed after the whole tree was applied,
\* whatever the tree supplies for cfg_crc, cfg_crc32 and cfg_timestamp.
SlotsComputed ==
    EncodedSlots =>
        /\ HasKey(CONFIG.info.template, "cfg_crc") =>
              PyEq(Slot(result, "cfg_crc"), get_settingcrc(result))
        /\ HasKey(CONFIG.info.template, "cfg_crc32") =>
              PyEq(Slot(result, "cfg_crc32"), get_settingcrc32(result))

\* What the code does with the slots: set_field writes nothing for cfg_crc, cfg_crc32 and
\* cfg_timestamp: applying the tree leaves the bytes of the three slots as
\* they are in the base image.  Afterwards mapping2bin patches one slot
\* with the checksum of the applied image: cfg_crc32 where the template has
\* it, else cfg_crc.  cfg_timestamp, and cfg_crc where the template has
\* cfg_crc32 too, keep the bytes of the base image.
SlotsPatched ==
    EncodedSlots =>
        /\ \A k \in 1..Len(SlotNames) :
              HasKey(CONFIG.info.template, SlotNames[k]) =>
                 FieldBytes(Applied, SlotNames[k]) = FieldBytes(op.before, SlotNames[k])
        /\ IF HasKey(CONFIG.info.template, "cfg_crc32")
           THEN /\ PyEq(Slot(result, "cfg_crc32"), get_settingcrc32(Applied))
                /\ FieldBytes(result, "cfg_crc") = FieldBytes(op.before, "cfg_crc")
                /\ FieldBytes(result, "cfg_timestamp")
                      = FieldBytes(op.before, "cfg_timestamp")
           ELSE PyEq(Slot(result, "cfg_crc"), get_settingcrc(Applied))
        /\ \A a \in 0..(Len(result) - 1) :
              (\A k \in 1..Len(SlotNames) :
                  HasKey(CONFIG.info.template, SlotNames[k]) =>
                     a \notin Range(DictGet(CONFIG.info.template, SlotNames[k]).addrdef[1],
                                    calcsize(DictGet(CONFIG.info.template,
                                                     SlotNames[k]).format)))
              => At(result, a) = At(Applied, a)

\* a tree that supplies 1 for the three slots around a new altitude was
\* encoded: the altitude is stored, the timestamp is the one of the base
\* image and cfg_crc32 is neither 1 nor the one of the base image
SlotsPatchedWitness ==
    /\ EncodedSlots
    /\ Len(op.slots) = 4
    /\ EXIT_CODE = ExitOK
    /\ FieldBytes(result, "altitude") = <<210, 4>>
    /\ FieldBytes(result, "cfg_timestamp") # <<1, 0, 0, 0>>
    /\ FieldBytes(result, "cfg_timestamp") # <<0, 0, 0, 0>>
    /\ FieldBytes(result, "cfg_crc32") # <<1, 0, 0, 0>>
    /\ FieldBytes(result, "cfg_crc32") # FieldBytes(op.before, "cfg_crc32")
    /\ FieldBytes(result, "cfg_crc") # <<1, 0>>

(***************************************************************************)
(* Partial restore.  set_field for an array given fewer elements than it   *)
(* has, and for a nested definition given some of its children.            *)
(***************************************************************************)
\* SETTING_6_6_0_10's tuya_fnid_map, an array of nested definitions, with
\* three elements at the free addresses 64..69
tuya_fnid_map ==
    [DictDef(<< <<"fnid", Def(Fmt("B"), <<64>>, <<>>, "None", <<>>)>>,
                <<"dpid", Def(Fmt("B"), <<65>>, <<>>, "None", <<>>)>> >>, <<64>>)
        EXCEPT !.arraydef = <<3>>, !.converter = <<"None", "None">>]

PartialDef(name) ==
    IF name = "tuya_fnid_map" THEN tuya_fnid_map ELSE DictGet(CONFIG.info.template, name)

Text20 == [k \in 1..20 |-> 65]

\* an image whose arrays hold values in every element
FilledImage(version) ==
    LET pwm == Splice(RawImage(version, 5, 10, <<>>, 0), 26,
                      <<100, 0, 101, 0, 102, 0, 103, 0, 104, 0>>)
        tuya == Splice(pwm, 64, <<10, 20, 11, 21, 12, 22>>)
        ssid == IF version < V_8_0_0_1
                THEN Splice(Splice(tuya, 46, Home), 54, Guest)
                ELSE Splice(tuya, 36, Blob(<<<<>>, <<>>, <<>>, <<>>, Home, Guest, <<>>, <<>>,
                                             <<>>, <<>>, <<>>, <<>>, <<>>, <<>>, <<>>, <<>>>>,
                                           28))
    IN Stamp(ssid, version)

PartialImages == {FilledImage(v) : v \in {V_6_6_0_10, V_8_2_0_4}}

TuyaElements ==
    {DictV(<<>>), One("fnid", IntV(1)), One("dpid", IntV(2)),
     DictV(<< <<"fnid", IntV(1)>>, <<"dpid", IntV(2)>> >>),
     DictV(<< <<"fnid", NoneV>>, <<"dpid", IntV(3)>> >>)}

\* lists shorter than the array and mappings without some of the children
PartialWrites ==
    {<<"pwm_value", Ints(SubSeq(<<1, 2, 3, 4, 5>>, 1, n))>> : n \in 0..4}
    \cup {<<"tuya_fnid_map", ListV(<<>>)>>}
    \cup {<<"tuya_fnid_map", ListV(<<e>>)>> : e \in TuyaElements}
    \cup {<<"tuya_fnid_map", ListV(<<e, f>>)>> : e, f \in TuyaElements}
    \cup {<<"flag", DictV(<<>>)>>, <<"flag", One("save_state", IntV(1))>>,
          <<"flag", DictV(<< <<"save_state", IntV(1)>>, <<"mqtt_enabled", IntV(0)>> >>)>>}
    \cup {<<"sta_ssid", ListV(<<>>)>>, <<"sta_ssid", ListV(<<StrV(<<97, 98>>)>>)>>,
          <<"sta_ssid", ListV(<<StrV(Text20)>>)>>}

\* every text of a list fits the field it is for
FitsField(fielddef, data) ==
    data.t = "list" =>
        \A k \in 1..Len(data.s) :
            data.s[k].t = "str" => Len(data.s[k].s) <= get_formatcount(fielddef.format) - 1

InitPartial ==
    /\ \E w \in BOOLEAN : ARGS = [DefaultArgs EXCEPT !.ignorewarning = w]
    /\ Start

LoadPartialImage == \E image \in PartialImages : LoadConfig(decrypt_encrypt(image))

\* set_field for a field of the loaded image, given part of its values
SetPartial ==
    /\ ~halted
    /\ op.name = "load"
    /\ \E write \in PartialWrites :
          /\ FitsField(PartialDef(write[1]), write[2])
          /\ \E m \in {set_field([dobj |-> result, code |-> EXIT_CODE, halt |-> FALSE],
                                  PyShl(1, CONFIG.info.platform), write[1],
                                  PartialDef(write[1]), write[2], 0)} :
                /\ result' = m.dobj
                /\ EXIT_CODE' = m.code
                /\ halted' = m.halt
          /\ op' = [name |-> "set_field", partial |-> write[1], data |-> write[2],
                    before |-> result]
    /\ UNCHANGED <<ARGS, CONFIG, written>>

NextPartial == LoadPartialImage \/ SetPartial

SpecPartial == InitPartial /\ [][NextPartial]_vars

\* element i of an array field as the image holds it: its bytes, or for an
\* array of indexed texts the text of its index in the shared region
Element(image, fielddef, i) ==
    LET d == get_fielddef(fielddef)
        length == get_fieldlength(get_subfielddef(fielddef))
    IN IF d.strindex # -1
       THEN LET sarray == Split(unpack_from(d.format_, image, d.baseaddr).s, -1)
            IN IF d.strindex + i + 1 <= Len(sarray)
               THEN sarray[d.strindex + i + 1] ELSE <<0>>
       ELSE Slice(image, d.baseaddr + i * length, d.baseaddr + (i + 1) * length)

\* the value of a child of a nested definition at an address offset
Child(image, childdef, addroffset) ==
    get_field(image, PyShl(1, CONFIG.info.platform), childdef, FALSE, addroffset)

Absent(mapping, name) == DictGet(mapping.s, name).t = "none"

PartialWritten == op.name = "set_field" /\ "partial" \in DOMAIN op

\* C24: set_field for a list shorter than the array, or a mapping without
\* some children of a nested definition, reports no error; every element
\* at an index from the length of the list on, and every child the mapping
\* does not hold, is in the buffer as it was.
PartialRestoreKeeps ==
    PartialWritten =>
        LET fielddef == PartialDef(op.partial)
            length == get_fieldlength(get_subfielddef(fielddef))
        IN /\ ~halted /\ EXIT_CODE = ExitOK
           /\ Len(result) = Len(op.before)
           /\ fielddef.arraydef # <<>> =>
                 \A i \in 0..(fielddef.arraydef[1] - 1) :
                    IF i >= Len(op.data.s)
                    THEN Element(result, fielddef, i) = Element(op.before, fielddef, i)
                    ELSE op.data.s[i + 1].t = "dict" =>
                            \A k \in 1..Len(fielddef.children) :
                               Absent(op.data.s[i + 1], fielddef.children[k][1]) =>
                                  Child(result, fielddef.children[k][2], i * length)
                                     = Child(op.before, fielddef.children[k][2], i * length)
           /\ (fielddef.arraydef = <<>> /\ fielddef.format.type = "dict") =>
                 \A k \in 1..Len(fielddef.children) :
                    Absent(op.data, fielddef.children[k][1]) =>
                       Child(result, fielddef.children[k][2], 0)
                          = Child(op.before, fielddef.children[k][2], 0)

(***************************************************************************)
(* Keys of the restore tree the template does not hold.                    *)
(***************************************************************************)
\* the header a backup writes, and other values a file may hold under the
\* key
HeaderValues ==
    {DictV(<< <<"template", DictV(<< <<"version", StrV(<<48, 120, 49>>)>> >>)>>,
              <<"altitude", IntV(40000)>> >>),
     IntV(7), StrV(<<120>>), NoneV}

\* names no template of the registry holds, and a name of a later template
ObsoleteNames == {"obsolete", "Header", "config_version"}

\* trees of a header, an unknown key or both, alone or among writes of
\* fields: the items in file order and the writes of fields among them
UnknownTrees ==
    UNION {{[items |-> << <<"header", h>> >>, accepted |-> {}],
            [items |-> << <<"header", h>>, Item(g)>>, accepted |-> {g}]} :
           h \in HeaderValues, g \in AcceptedWrites}
    \cup UNION {{[items |-> << <<name, IntV(1)>> >>, accepted |-> {}],
                 [items |-> << <<name, IntV(1)>>, Item(g)>>, accepted |-> {g}],
                 [items |-> <<Item(g), <<name, One("altitude", IntV(5))>> >>,
                  accepted |-> {g}],
                 [items |-> << <<"header", IntV(7)>>, <<name, IntV(1)>>, Item(g)>>,
                  accepted |-> {g}]} :
                name \in ObsoleteNames, g \in AcceptedWrites}

InitUnknown ==
    /\ \E w \in BOOLEAN : ARGS = [DefaultArgs EXCEPT !.ignorewarning = w]
    /\ Start

LoadUnknownImage == \E image \in TreeImages : LoadConfig(decrypt_encrypt(image))

\* mapping2bin for a tree with keys the template may not hold
EncodeUnknown ==
    /\ ~halted
    /\ op.name = "load"
    /\ \E tree \in UnknownTrees :
          /\ \E m \in {mapping2bin(CONFIG, DictV(tree.items),
                                    [dobj |-> <<>>, code |-> EXIT_CODE, halt |-> FALSE])} :
                /\ result' = IF m.halt THEN result ELSE m.dobj
                /\ EXIT_CODE' = m.code
                /\ halted' = m.halt
          /\ op' = [name |-> "mapping2bin", keys |-> tree, before |-> CONFIG.decode]
    /\ UNCHANGED <<ARGS, CONFIG, written>>

NextUnknown == LoadUnknownImage \/ EncodeUnknown

SpecUnknown == InitUnknown /\ [][NextUnknown]_vars

EncodedUnknown == op.name = "mapping2bin" /\ "keys" \in DOMAIN op

\* the addresses of the checksum slot mapping2bin patches
PatchedSlot(template) ==
    LET name == IF HasKey(template, "cfg_crc32") THEN "cfg_crc32" ELSE "cfg_crc"
    IN Range(DictGet(template, name).addrdef[1], calcsize(DictGet(template, name).format))

\* the keys of the tree, other than header, the template does not hold
UnknownKeys ==
    {op.keys.items[k][1] : k \in 1..Len(op.keys.items)}
        \ ({"header"} \cup {CONFIG.info.template[k][1] : k \in 1..Len(CONFIG.info.template)})

\* C25: a key of the tree that the template does not hold sets exit status
\* 9 and ends the run unless ignore-warnings is set; with ignore-warnings
\* set the run goes on and the key changes no byte: the fields of the tree
\* hold their new values, the checksum slot is patched and every other byte
\* is the one of the base image.  The key header raises nothing and changes
\* no byte, whatever its value.
UnknownKeysReported ==
    EncodedUnknown =>
        /\ IF UnknownKeys # {}
           THEN EXIT_CODE = RESTORE_DATA_ERROR /\ (halted <=> ~ARGS.ignorewarning)
           ELSE ~halted /\ EXIT_CODE = ExitOK
        /\ ~halted =>
              /\ Len(result) = Len(op.before)
              /\ \A g \in op.keys.accepted :
                    Slice(result, g[3], g[3] + Len(g[4])) = g[4]
              /\ \A a \in 0..(Len(result) - 1) :
                    (/\ a \notin PatchedSlot(CONFIG.info.template)
                     /\ \A g \in op.keys.accepted : a \notin Range(g[3], Len(g[4])))
                    => At(result, a) = At(op.before, a)
              /\ SlotHoldsChecksum(CONFIG.info.template, result)

\* under ignore-warnings a tree of a header, an unknown key and a new
\* altitude was encoded: exit status 9, the altitude stored
UnknownKeysWitness ==
    /\ EncodedUnknown
    /\ Len(op.keys.items) = 3
    /\ op.keys.items[1][1] = "header"
    /\ op.keys.items[2][1] = "obsolete"
    /\ ARGS.ignorewarning /\ ~halted /\ EXIT_CODE = RESTORE_DATA_ERROR
    /\ Slice(result, 24, 26) = <<210, 4>>
    /\ Slice(op.before, 24, 26) # <<210, 4>>

(***************************************************************************)
(* The outcomes of get_filetype.                                           *)
(***************************************************************************)
\* the four bytes of 0x63576223, lowest first
MagicBytes == <<35, 98, 87, 99>>

MagicFound(content) ==
    \/ Slice(content, 0, 4) = MagicBytes
    \/ Slice(content, Len(content) - 4, Len(content)) = MagicBytes

Classified == op.name = "get_filetype"

DOWNLOAD_CONFIG_ERROR == 10
HTTP_CONNECTION_ERROR == 22

Upload == <<85, 112, 108, 111, 97, 100>>
Successful == <<83, 117, 99, 99, 101, 115, 115, 102, 117, 108>>
Failed == <<70, 97, 105, 108, 101, 100>>

\* text.find(pattern)
Find(text, pattern) ==
    LET hits == {j \in 0..(Len(text) - Len(pattern)) :
                    SubSeq(text, j + 1, j + Len(pattern)) = pattern}
    IN IF hits = {} THEN -1 ELSE CHOOSE j \in hits : \A h \in hits : j <= h

\* what a request ends with: no connection, or a response with a status,
\* a content type and a body
NoConnection == [error |-> TRUE, status_code |-> 0, type |-> "", body |-> <<>>]

Response(status_code, type, body) ==
    [error |-> FALSE, status_code |-> status_code, type |-> type, body |-> body]

GetResponses ==
    {NoConnection, Response(404, "text/html", <<>>), Response(401, "text/html", <<>>),
     Response(200, "application/json", <<>>), Response(200, "text/html", <<>>)}

PostResponses ==
    {NoConnection, Response(404, "text/html", Failed), Response(500, "text/html", <<>>),
     Response(200, "text/plain", Upload \o <<32>> \o Successful)}
    \cup {Response(200, "text/html", body) :
            body \in {Upload \o <<32>> \o Successful, Successful \o <<32>> \o Upload,
                      Upload \o <<32>> \o Failed, Upload \o Upload \o Successful,
                      Failed, Successful, <<>>}}

\* res.ok
Ok(res) == res.status_code < 400

\* get_tasmotaconfig: the run after the response to the GET request
get_tasmotaconfig(m, res, contenttype) ==
    IF res.error THEN exit_(m, HTTP_CONNECTION_ERROR, TRUE)
    ELSE IF ~Ok(res) THEN exit_(m, res.status_code, TRUE)
    ELSE IF contenttype # "None" /\ res.type # contenttype
    THEN exit_(m, DOWNLOAD_CONFIG_ERROR, TRUE)
    ELSE m

\* the error code push_tasmotaconfig returns for the body of the response
\* to the POST request
UploadResult(body) ==
    LET find_upload == Find(body, Upload)
    IN IF find_upload < 0 THEN UPLOAD_CONFIG_ERROR
       ELSE IF Find(SubSeq(body, find_upload + 1, Len(body)), Successful) < 0
       THEN UPLOAD_CONFIG_ERROR
       ELSE 0

\* the status the process ends with for sys.exit(status)
ProcessStatus(status) == status % 256

UploadTrees == {DictV(<<>>)} \cup {DictV(<<Item(g)>>) : g \in AcceptedWrites}

InitUpload ==
    /\ \E w, force \in BOOLEAN :
          ARGS = [DefaultArgs EXCEPT !.ignorewarning = w, !.forcerestore = force,
                                     !.target = "device"]
    /\ Start

LoadUploadImage == \E image \in TreeImages : LoadConfig(decrypt_encrypt(image))

\* restore() for a JSON restore file up to the first request of
\* push_tasmotaconfig, GET rs?
RestoreDevice ==
    /\ ~halted
    /\ op.name = "load"
    /\ \E jsonconfig \in UploadTrees :
          \E m \in {mapping2bin(CONFIG, jsonconfig,
                                 [dobj |-> <<>>, code |-> EXIT_CODE, halt |-> FALSE])} :
          \E new_encode_cfg \in {decrypt_encrypt(m.dobj)} :
             /\ ~m.halt
             /\ result' = new_encode_cfg
             /\ IF RestoreNeeded(new_encode_cfg, CONFIG)
                THEN /\ written' = Append(written, [request |-> "GET", path |-> "rs?",
                                                    data |-> <<>>])
                     /\ EXIT_CODE' = m.code
                     /\ op' = [name |-> "get", get |-> NoConnection, post |-> NoConnection,
                               error_code |-> 0, status |-> 0]
                ELSE /\ written' = written
                     /\ EXIT_CODE' = RESTORE_SKIPPED
                     /\ op' = [name |-> "restored", get |-> NoConnection,
                               post |-> NoConnection, error_code |-> 0, status |-> 0]
    /\ UNCHANGED <<ARGS, CONFIG, halted>>

\* the response to GET rs? arrives; push_tasmotaconfig goes on to the
\* second request, POST u2 with the new image
GetResponds ==
    /\ ~halted
    /\ op.name = "get"
    /\ \E res \in GetResponses :
          \E m \in {get_tasmotaconfig([dobj |-> <<>>, code |-> EXIT_CODE, halt |-> FALSE],
                                      res, "text/html")} :
             /\ EXIT_CODE' = m.code
             /\ halted' = m.halt
             /\ written' = IF m.halt THEN written
                           ELSE Append(written, [request |-> "POST", path |-> "u2",
                                                 data |-> result])
             /\ op' = [op EXCEPT !.name = IF m.halt THEN "exit" ELSE "post",
                                 !.get = res,
                                 !.status = IF m.halt THEN ProcessStatus(m.code) ELSE 0]
    /\ UNCHANGED <<ARGS, CONFIG, result>>

\* the response to POST u2 arrives: the rest of push_tasmotaconfig and of
\* restore().  requests.post raises requests.exceptions.ConnectionError,
\* which "except ConnectionError" (the built-in class) does not catch: the
\* run ends with a traceback and the status 1.
PostResponds ==
    /\ ~halted
    /\ op.name = "post"
    /\ \E res \in PostResponses :
          \/ /\ res.error
             /\ halted' = TRUE
             /\ EXIT_CODE' = EXIT_CODE
             /\ op' = [op EXCEPT !.name = "traceback", !.post = res, !.status = 1]
          \/ /\ ~res.error
             /\ \E m \in {IF ~Ok(res)
                          THEN exit_([code |-> EXIT_CODE, halt |-> FALSE],
                                     res.status_code, TRUE)
                          ELSE IF res.type # "text/html"
                          THEN exit_([code |-> EXIT_CODE, halt |-> FALSE],
                                     UPLOAD_CONFIG_ERROR, TRUE)
                          ELSE IF UploadResult(res.body) # 0
                          THEN exit_([code |-> EXIT_CODE, halt |-> FALSE],
                                     UPLOAD_CONFIG_ERROR, TRUE)
                          ELSE [code |-> EXIT_CODE, halt |-> FALSE]} :
                   /\ EXIT_CODE' = m.code
                   /\ halted' = m.halt
                   /\ op' = [op EXCEPT !.name = IF m.halt THEN "exit" ELSE "restored",
                                       !.post = res,
                                       !.error_code = IF Ok(res) /\ res.type = "text/html"
                                                      THEN UploadResult(res.body) ELSE 0,
                                       !.status = IF m.halt THEN ProcessStatus(m.code)
                                                  ELSE 0]
    /\ UNCHANGED <<ARGS, CONFIG, result, written>>

NextUpload == LoadUploadImage \/ RestoreDevice \/ GetResponds \/ PostResponds

SpecUpload == InitUpload /\ [][NextUpload]_vars

Posted == \E k \in 1..Len(written) : written[k].request = "POST"

Answered == "post" \in DOMAIN op /\ op.name \in {"restored", "exit", "traceback"} /\ Posted

\* the body holds "Upload" and, later, "Successful"
UploadSuccessful(body) ==
    \E i, j \in 0..Len(body) :
        /\ i + Len(Upload) <= j
        /\ j + Len(Successful) <= Len(body)
        /\ SubSeq(body, i + 1, i + Len(Upload)) = Upload
        /\ SubSeq(body, j + 1, j + Len(Successful)) = Successful

Succeeded == Answered /\ op.name = "restored" /\ ~halted

\* C27: POST u2 is sent only after GET rs? was answered without error with
\* the content type text/html; the upload counts as done only when the body
\* of the answer to the POST holds "Upload" and later "Successful"; in
\* every other case the run ends with UPLOAD_CONFIG_ERROR (11).
UploadOrdered ==
    /\ Posted =>
          /\ written[Len(written) - 1] = [request |-> "GET", path |-> "rs?", data |-> <<>>]
          /\ ~op.get.error /\ Ok(op.get) /\ op.get.type = "text/html"
    /\ Succeeded => UploadSuccessful(op.post.body)
    /\ (Answered /\ ~Succeeded) =>
          (halted /\ EXIT_CODE = UPLOAD_CONFIG_ERROR /\ op.status = UPLOAD_CONFIG_ERROR)

(***************************************************************************)
(* Writing one text of the shared text region.                             *)
(***************************************************************************)
\* the texts of the region by index: the two SSIDs (4, 5), the two WiFi
\* passwords (6, 7) and the MQTT password (15)
RegionTexts(ssid1, ssid2, pwd1, pwd2, mqtt) ==
    [k \in 1..16 |-> CASE k = 5 -> ssid1 [] k = 6 -> ssid2 [] k = 7 -> pwd1
                       [] k = 8 -> pwd2 [] k = 16 -> mqtt [] OTHER -> <<>>]

\* an empty region, one with room left and one filled to its last byte
Regions ==
    {Blob(RegionTexts(<<>>, <<>>, <<>>, <<>>, <<>>), 28),
     Blob(RegionTexts(Home, Guest, <<>>, <<>>, Pw1), 28),
     Blob(RegionTexts(Home, Guest, Pw1, <<>>, <<49>>), 28)}

RegionImages == {StringImage(V_8_2_0_4, b) : b \in Regions}

\* the definitions that address a text of the region: name, definition of
\* the single text, address offset, index of the text
RegionSlots ==
    UNION {{<<name, get_subfielddef(DictGet(CONFIG.info.template, name)), i,
              DictGet(CONFIG.info.template, name).addrdef[2] + i>> : i \in {0, 1}} :
           name \in {"sta_ssid", "sta_pwd"}}
    \cup {<<"mqtt_pwd", DictGet(CONFIG.info.template, "mqtt_pwd"), 0,
            DictGet(CONFIG.info.template, "mqtt_pwd").addrdef[2]>>}

\* new texts, each shorter than the region
NewTexts == {<<>>, <<97, 98>>, Home, TenChars, Text20, [k \in 1..27 |-> 66]}

InitRegion ==
    /\ \E w \in BOOLEAN : ARGS = [DefaultArgs EXCEPT !.ignorewarning = w]
    /\ Start

LoadRegionImage == \E image \in RegionImages : LoadConfig(decrypt_encrypt(image))

\* set_field for one text of the region
WriteSlot ==
    /\ ~halted
    /\ op.name = "load"
    /\ \E slot \in RegionSlots, text \in NewTexts :
          /\ \E m \in {set_field([dobj |-> result, code |-> EXIT_CODE, halt |-> FALSE],
                                  PyShl(1, CONFIG.info.platform), slot[1], slot[2],
                                  StrV(text), slot[3])} :
                /\ result' = m.dobj
                /\ EXIT_CODE' = m.code
                /\ halted' = m.halt
          /\ op' = [name |-> "set_field", slot |-> slot[4], text |-> text,
                    before |-> result]
    /\ UNCHANGED <<ARGS, CONFIG, written>>

NextRegion == LoadRegionImage \/ WriteSlot

SpecRegion == InitRegion /\ [][NextRegion]_vars

RegionAddr == DictGet(CONFIG.info.template, "mqtt_pwd").addrdef[1]

RegionSize == get_formatcount(DictGet(CONFIG.info.template, "mqtt_pwd").format)

\* the text of index j the region of an image holds; a text the region has
\* no separator for is none
SlotText(image, j) ==
    LET sarray == Split(Slice(image, RegionAddr, RegionAddr + RegionSize), -1)
    IN IF j + 1 <= Len(sarray) THEN StrV(RStrip(sarray[j + 1])) ELSE NoneV

SlotWritten == op.name = "set_field" /\ "slot" \in DOMAIN op

\* C28: set_field for the text of index k of the region, with a new text
\* shorter than the region, reports no error, stores the new text and
\* leaves the text of every other index as it was.
SlotsIsolated ==
    SlotWritten =>
        /\ ~halted /\ EXIT_CODE = ExitOK
        /\ SlotText(result, op.slot) = StrV(op.text)
        /\ \A j \in (0..15) \ {op.slot} : SlotText(result, j) = SlotText(op.before, j)

(***************************************************************************)
(* The exit status of a run: the load, a restore from a JSON file to the   *)
(* configuration file, and sys.exit(EXIT_CODE) at the end of main.         *)
(***************************************************************************)
\* the image with a stored checksum that is wrong
Corrupted(image, version) ==
    LET addr == IF version >= V_6_6_0_11 THEN Len(image) - 1 ELSE 14
    IN Splice(image, addr, <<(At(image, addr) + 1) % 256>>)

LenientImages ==
    TreeImages \cup {Corrupted(MapImage(v, 1000), v) : v \in {V_6_2_1_14, V_8_2_0_4}}

\* trees with and without a value set_field rejects; the ones of a
\* rejected value alone leave the image as it is
LenientTrees ==
    {t \in RestoreTrees : TreeOK(t)}
    \cup {[items |-> <<Item(bad)>>, rejected |-> bad[3], accepted |-> {}] :
             bad \in RejectedWrites}

InitLenient ==
    /\ \E w, force \in BOOLEAN :
          ARGS = [DefaultArgs EXCEPT !.ignorewarning = w, !.forcerestore = force]
    /\ Start

LoadLenientImage == \E image \in LenientImages : LoadConfig(decrypt_encrypt(image))

\* restore() for a JSON restore file, to the configuration file
RestoreLenient ==
    /\ ~halted
    /\ op.name = "load"
    /\ \E tree \in LenientTrees :
          /\ \A k \in 1..Len(tree.items) : HasKey(CONFIG.info.template, tree.items[k][1])
          /\ \E m \in {mapping2bin(CONFIG, DictV(tree.items),
                                    [dobj |-> <<>>, code |-> EXIT_CODE, halt |-> FALSE])} :
             \E new_encode_cfg \in {decrypt_encrypt(m.dobj)} :
                /\ result' = IF m.halt THEN result ELSE new_encode_cfg
                /\ written' = IF ~m.halt /\ RestoreNeeded(new_encode_cfg, CONFIG)
                              THEN Append(written, [to |-> "file", data |-> new_encode_cfg,
                                                    error_code |-> 0])
                              ELSE written
                /\ EXIT_CODE' = IF m.halt THEN m.code
                                ELSE IF ~RestoreNeeded(new_encode_cfg, CONFIG)
                                THEN RESTORE_SKIPPED
                                ELSE m.code
                /\ halted' = m.halt
                /\ op' = [name |-> "restore", lenient |-> tree, status |-> 0,
                          loaded |-> EXIT_CODE]
    /\ UNCHANGED <<ARGS, CONFIG>>

\* sys.exit(EXIT_CODE) at the end of main, after the load alone or after
\* the restore
ExitLenient ==
    /\ ~halted
    /\ op.name \in {"load", "restore"}
    /\ halted' = TRUE
    /\ op' = [name |-> "exit",
              lenient |-> IF op.name = "restore" THEN op.lenient
                          ELSE [items |-> <<>>, rejected |-> {}, accepted |-> {}],
              restored |-> op.name = "restore",
              status |-> ProcessStatus(EXIT_CODE),
              loaded |-> IF op.name = "restore" THEN op.loaded ELSE EXIT_CODE]
    /\ UNCHANGED <<ARGS, EXIT_CODE, CONFIG, result, written>>

NextLenient == LoadLenientImage \/ RestoreLenient \/ ExitLenient

SpecLenient == InitLenient /\ [][NextLenient]_vars

\* the run reached the end of main under ignore-warnings
LenientExit == op.name = "exit" /\ "lenient" \in DOMAIN op /\ ARGS.ignorewarning

\* the loaded image raised the checksum warning
ChecksumWarned == ~SlotHoldsChecksum(CONFIG.info.template, CONFIG.decode)

\* the restore raised a warning for a value of the tree
RestoreWarned == op.restored /\ op.lenient.rejected # {}

\* the restore found the image unchanged and wrote nothing
RestoreSkipped == op.restored /\ result = CONFIG.encode /\ ~ARGS.forcerestore

\* C29: under ignore-warnings a warning that does not end the run still
\* sets the exit status; at the end of the run the process status is the
\* one assigned last: 1 if the restore was skipped, else the code of the
\* last warning (9 of the restore, else 5 of the load), and 0 only if no
\* warning was raised.
LastStatusKept ==
    /\ (op.name = "load" /\ ARGS.ignorewarning /\ ChecksumWarned) =>
          (~halted /\ EXIT_CODE = DATA_CRC_ERROR)
    /\ LenientExit =>
          /\ op.status = IF RestoreSkipped THEN RESTORE_SKIPPED
                         ELSE IF RestoreWarned THEN RESTORE_DATA_ERROR
                         ELSE IF ChecksumWarned THEN DATA_CRC_ERROR
                         ELSE ExitOK
          /\ op.status = EXIT_CODE
          /\ op.status = ExitOK => (~ChecksumWarned /\ ~RestoreWarned)

\* a run that raised the checksum warning at the load and then a warning
\* for a value of the tree, and wrote the other values, ended with 9
LastStatusWitness ==
    /\ LenientExit
    /\ ChecksumWarned /\ RestoreWarned /\ ~RestoreSkipped
    /\ op.loaded = DATA_CRC_ERROR
    /\ op.status = RESTORE_DATA_ERROR
    /\ Len(written) = 1

(***************************************************************************)
(* backup() in dmp or bin format followed by restore() of the file just    *)
(* written, lines 3357-3421 and 3423-3540.  Before 6.0.0 cfg_holder is the  *)
(* 32-bit field at 0x000; from 6.0.0 on it has 16 bits and cfg_size        *)
(* follows at 0x002.                                                       *)
(***************************************************************************)
HolderValues == {4660, BINARYFILE_MAGIC}

\* an image of a registry version with the given cfg_holder
HeldImage(version, holder, weight) ==
    LET raw == RawImage(version, 5, 10, Secret, weight)
        held == IF version < V_6_0_0
                THEN Splice(raw, 0, LittleEndian(holder, 4))
                ELSE Splice(raw, 0, LittleEndian(holder % 65536, 2))
    IN Stamp(held, version)

RoundTripImages ==
    {HeldImage(v, h, w) : v \in {OldestVersion, V_6_2_1_14, V_6_6_0_11, V_8_2_0_4},
                          h \in HolderValues, w \in {0, 1000}}

InitRoundTrip ==
    /\ \E force \in BOOLEAN, target \in {"device", "file"} :
          ARGS = [DefaultArgs EXCEPT !.forcerestore = force, !.target = target]
    /\ Start

LoadRoundTripImage == \E image \in RoundTripImages : LoadConfig(decrypt_encrypt(image))

\* backup() with a backup file format of dmp or bin
BackupImage ==
    /\ ~halted
    /\ op.name = "load"
    /\ \E backupfileformat \in {DMP, BIN} :
          /\ written' = Append(written,
                               [to |-> "backup",
                                data |-> BackupContent(backupfileformat, CONFIG),
                                error_code |-> 0])
          /\ op' = [op EXCEPT !.name = "backup", !.n = 1, !.field = backupfileformat,
                              !.code = EXIT_CODE]
    /\ UNCHANGED <<ARGS, EXIT_CODE, halted, CONFIG, result>>

\* restore() with the file the backup wrote as the restore file
RestoreBackup ==
    /\ ~halted
    /\ op.name = "backup"
    /\ \E file \in {[exists |-> TRUE, content |-> written[Len(written)].data.s,
                     tree |-> NoTree]} :
       \E c \in {Candidate(file, CONFIG, [dobj |-> <<>>, code |-> EXIT_CODE,
                                          halt |-> FALSE])} :
          LET needed == ~c.m.halt /\ RestoreNeeded(c.new_encode_cfg, CONFIG)
          IN /\ result' = IF c.m.halt THEN result ELSE c.new_encode_cfg
             /\ written' = IF needed /\ WriteAllowed(ARGS)
                           THEN Append(written, [to |-> ARGS.target,
                                                 data |-> BytesV(c.new_encode_cfg),
                                                 error_code |-> 0])
                           ELSE written
             /\ EXIT_CODE' = IF c.m.halt THEN c.m.code
                             ELSE IF ~needed THEN RESTORE_SKIPPED
                             ELSE c.m.code
             /\ halted' = c.m.halt
             /\ op' = [op EXCEPT !.name = "restore", !.n = 2, !.code = EXIT_CODE]
    /\ UNCHANGED <<ARGS, CONFIG>>

NextRoundTrip == LoadRoundTripImage \/ BackupImage \/ RestoreBackup

SpecRoundTrip == InitRoundTrip /\ [][NextRoundTrip]_vars

\* the restore of the backup file has run without force-restore
RoundTripDone == op.name = "restore" /\ ~ARGS.forcerestore

\* C30: after a backup of the loaded image in dmp or bin format, restore
\* on that file without force-restore reconstructs a candidate equal to the
\* original obfuscated image, ends with RESTORE_SKIPPED and writes nothing.
BackupRestoreSkipped ==
    RoundTripDone =>
        /\ ~halted
        /\ result = CONFIG.encode
        /\ EXIT_CODE = RESTORE_SKIPPED
        /\ Len(written) = 1

\* what holds for the dmp format, and for the bin format unless the
\* decoded image itself begins with the magic marker
RoundTripSkippedUnlessMagicFirst ==
    (RoundTripDone /\ (op.field = DMP \/ ~HasMagic(CONFIG.decode, 0))) =>
        /\ result = CONFIG.encode
        /\ EXIT_CODE = RESTORE_SKIPPED
        /\ Len(written) = 1

\* a bin backup of an image that begins with the magic marker was restored:
\* the candidate differs from the image and was written
RoundTripWritten ==
    /\ RoundTripDone
    /\ op.field = BIN
    /\ HasMagic(CONFIG.decode, 0)
    /\ result # CONFIG.encode
    /\ Len(result) = Len(CONFIG.encode)
    /\ EXIT_CODE = ExitOK
    /\ Len(written) = 2

====
